---- MODULE Spec2Model ----
(***************************************************************************)
(* The job orchestration engine of FileZipper V6: the in-memory registry   *)
(* of running jobs (job_manager.py), the backup executor                   *)
(* run_job_in_thread (job_runner.py), the jobs table (database.py), the    *)
(* scheduler pass (job_scheduler.py) and the two UI handlers that create   *)
(* and start jobs (add_job_ui.py, run_jobs_ui.py).                         *)
(*                                                                         *)
(* Time is counted in minutes since 2024-01-01T00:00 (a Monday).  Every    *)
(* datetime.now() of the code is a read of the clock: it returns some      *)
(* instant not earlier than the previous read.                             *)
(***************************************************************************)
EXTENDS Integers, Sequences, FiniteSets, TLC

\* ---------------------------------------------------------------- bounds
\* rows the jobs table can hold
NumJobs == 1
\* executor threads created over one behaviour
MaxRuns == 1
\* the clock runs over the days 0..MaxDay
MaxDay == 0
\* rows and executor threads of the specification of the registry
RegistryJobs == 2
RegistryRuns == 2
\* rows of the specification of the scheduler pass
SchedulerJobs == 2
\* paths the disk of the specification of resolve_save_conflict can hold
MaxPaths == 4
\* threads that call the registry, Event objects they create, and calls that
\* may wait on the Tk main loop, in the specification of job_manager
ManagerCallers == 1
MaxEvents == 2
MaxQueued == 1

\* the jobs in the table and the clicks on "run now" in the specification of
\* the exit
ExitJobs == 1
ExitRuns == 1

\* the archives a restore reads and the entries it extracts from each
MaxArchives == 2
MaxEntries == 2

JobIds == 1..NumJobs

\* ------------------------------------------------------------- constants
\* Python's None (a timestamp that is NULL in the jobs table)
None == -1
MinutesPerHour == 60
MinutesPerDay == 24 * MinutesPerHour
HM(h, m) == h * MinutesPerHour + m

\* the instants the clock is read at: two times of day on each day
TimesOfDay == {HM(2, 0), HM(23, 30)}
Instants == {d * MinutesPerDay + t : d \in 0..MaxDay, t \in TimesOfDay}

\* job_manager.py: the status vocabulary
STATUS_IDLE == "Idle"
STATUS_PENDING == "Pending"
STATUS_PACKAGING == "Packaging"
STATUS_AWAITING_TRANSFER == "Awaiting Transfer"
STATUS_TRANSFERRING == "Transferring"
STATUS_VERIFYING == "Verifying"
STATUS_NOTIFYING_SENDER == "Notifying Sender"
STATUS_COMPLETED == "Completed"
STATUS_FAILED == "Failed"
\* last_run_status of a row that never ran (SQL NULL)
NoStatus == "None"

\* the values the UI offers for a job (add_job_ui.py)
Schedules == {"Manual", "Daily", "Hourly", "Once", "Weekly"}
Providers == {"local", "gdrive", "onedrive"}

\* values of the on_conflict argument (job_runner.ConflictResolution)
RENAME == "rename"
CANCEL == "cancel"
OVERWRITE == "overwrite"

\* the members of the enum ConflictResolution, and the argument left out
ENUM_OVERWRITE == "ConflictResolution.OVERWRITE"
ENUM_RENAME == "ConflictResolution.RENAME"
ENUM_CANCEL == "ConflictResolution.CANCEL"
NoAction == "None"

\* ----------------------------------------------------------------- state
VARIABLES
    now,          \* the last instant read from the clock
    jobs,         \* database: the jobs table, job id -> row
    staging_path, \* config.json: whether 'staging_path' is set
    files,        \* the archives on disk: <<job id, k>> is name.zip (k = 0) or name_k.zip
    running,      \* job_manager._running_jobs: registry key -> record
    runs,         \* the executor threads: run id -> frame of run_job_in_thread
    tk,           \* the calls queued on the Tk main loop by root_widget.after(0, ...)
    pass,         \* what the last scheduler pass did
    utc_offset,   \* local time minus UTC, in minutes
    disk,         \* the paths os.path.exists answers True for
    resolved,     \* the last call of resolve_save_conflict and what it returned
    listeners,    \* job_manager._listeners, in the order of the list
    root,         \* whether job_manager._root is set
    lock,         \* the thread inside a with _lock block of job_manager, or None
    callers,      \* the threads that call add_job, update_job_status, remove_job
    events,       \* how many threading.Event objects have been handed to add_job
    held,         \* the list a caller got from get_running_jobs and still holds
    api,          \* the last call of add_listener or remove_listener
    scheduler,    \* the scheduler thread: where it is in scheduler_loop, and its stop event
    app,          \* the main window: where the main thread is in on_exit and after
    restore,      \* the restore thread: the frame of run_restore_job_in_thread
    restore_files,   \* the archives a restore reads: the local ones and those in staging
    restore_history  \* database: the status column of the run's restore_history row

\* the state of the calls of resolve_save_conflict on paths
resolver_vars == <<disk, resolved>>

\* the state of job_manager.py besides _running_jobs
manager_vars == <<listeners, root, lock, callers, events, held, api>>

\* the scheduler thread and the main thread of the application
exit_vars == <<scheduler, app>>

\* the state of a restore run
restore_vars == <<restore, restore_files, restore_history>>

vars == <<now, jobs, staging_path, files, running, runs, tk, pass, utc_offset, resolver_vars, manager_vars, exit_vars, restore_vars>>

\* the executor threads a behaviour has frames for
RunIds == DOMAIN runs

\* a read of the clock: any instant not before the last one read
ClockReads == {t \in Instants : t >= now}

\* ------------------------------------------------- database.py: jobs table
\* UPDATE jobs SET status, last_run_at, last_run_status, next_run_at WHERE id
database_update_job_status(J, job_id, status, last_run_at, last_run_status, next_run_at) ==
    IF job_id \in DOMAIN J
    THEN [J EXCEPT ![job_id].status = status,
                   ![job_id].last_run_at = last_run_at,
                   ![job_id].last_run_status = last_run_status,
                   ![job_id].next_run_at = next_run_at]
    ELSE J

\* SELECT ... FROM jobs ORDER BY created_at DESC: ids are handed out in
\* creation order, so the newest row (the largest id) comes first
RECURSIVE Descending(_)
Descending(S) ==
    IF S = {} THEN <<>>
    ELSE LET m == CHOOSE x \in S : \A y \in S : y <= x
         IN  <<m>> \o Descending(S \ {m})

list_jobs(J) == Descending(DOMAIN J)

\* ------------------------------------------- job_manager.py: the registry
\* an add_job that keeps one record only, and a remove_job that empties the
\* registry when the id is unknown (faulty variants)
add_job_single_record(R, job_id, job_type, stop_event) ==
    [k \in {job_id} |->
        [type |-> job_type, stop_event |-> stop_event, status |-> "Pending"]]

remove_job_unknown_clears(R, job_id) ==
    IF job_id \in DOMAIN R
    THEN [k \in DOMAIN R \ {job_id} |-> R[k]]
    ELSE [k \in {} |-> R[k]]

\* add_job: the key is job_data['id'], the id of the jobs row
add_job(R, job_id, job_type, stop_event) ==
    [k \in DOMAIN R \cup {job_id} |->
        IF k = job_id
        THEN [type |-> job_type, stop_event |-> stop_event, status |-> STATUS_PENDING]
        ELSE R[k]]

\* a remove_job that leaves the record in place (a faulty variant)
remove_job_keeps_record(R, job_id) == R

remove_job(R, job_id) ==
    IF job_id \in DOMAIN R
    THEN [k \in DOMAIN R \ {job_id} |-> R[k]]
    ELSE R

\* an update_job_status that writes the status to every record (a faulty
\* variant)
update_job_status_every_record(R, job_id, status) ==
    [k \in DOMAIN R |-> [R[k] EXCEPT !.status = status]]

update_job_status(R, job_id, status) ==
    IF job_id \in DOMAIN R
    THEN [R EXCEPT ![job_id].status = status]
    ELSE R

\* a stop_job that sets the event of every record (a faulty variant)
stop_job_every_event(R, job_id) == {R[k].stop_event : k \in DOMAIN R}

\* stop_job: the run whose stop event is set, if any
stop_job(R, job_id) ==
    IF job_id \in DOMAIN R THEN {R[job_id].stop_event} ELSE {}

\* stop_all_jobs (lines 60-64): the runs whose stop events are set
stop_all_jobs(R) == {R[k].stop_event : k \in DOMAIN R}

get_running_jobs(R) == {R[k] : k \in DOMAIN R}

\* ------------------------------------------------ datetime, as minutes
\* day 0 is a Monday: datetime.weekday() is 0 for Monday
weekday(t) == (t \div MinutesPerDay) % 7

\* replace(hour=h, minute=m) without the added day (a faulty variant)
next_daily_same_day(t, h, m) == (t \div MinutesPerDay) * MinutesPerDay + HM(h, m)

\* (t + timedelta(days=1)).replace(hour=h, minute=m, second=0, microsecond=0)
next_daily(t, h, m) == ((t \div MinutesPerDay) + 1) * MinutesPerDay + HM(h, m)

\* replace(minute=m) without the added hour (a faulty variant)
next_hourly_same_hour(t, m) == (t \div MinutesPerHour) * MinutesPerHour + m

\* (t + timedelta(hours=1)).replace(minute=m, second=0, microsecond=0)
next_hourly(t, m) == ((t \div MinutesPerHour) + 1) * MinutesPerHour + m

\* a next_run_at that reschedules every job an hour on (a faulty variant)
next_run_at_every_schedule(schedule, last_run_time, schedule_hour, schedule_minute) ==
    next_hourly(last_run_time, schedule_minute)

\* run_job_in_thread: next_run_at, from the moment the run started
next_run_at_of(schedule, last_run_time, schedule_hour, schedule_minute) ==
    IF schedule = "Daily" THEN next_daily(last_run_time, schedule_hour, schedule_minute)
    ELSE IF schedule = "Hourly" THEN next_hourly(last_run_time, schedule_minute)
    ELSE None

\* a final status that sends a Once job back to Idle (a faulty variant)
final_status_db_always_idle(schedule) == STATUS_IDLE

\* status in the jobs table after a successful run
final_status_db_of(schedule) ==
    IF schedule = "Once" THEN STATUS_COMPLETED ELSE STATUS_IDLE

\* handlers that persist Completed, or leave Pending (faulty variants)
failure_status_db_completed == STATUS_COMPLETED
failure_status_db_pending == STATUS_PENDING

\* status in the jobs table after a failed or cancelled run
failure_status_db == STATUS_IDLE

\* reports that skip Awaiting Transfer, or announce Verifying before
\* Transferring (faulty variants)
status_at_without_awaiting_transfer(step) ==
    IF step = "initialize" THEN STATUS_PENDING
    ELSE IF step = "zip" THEN STATUS_PACKAGING
    ELSE IF step = "package created" THEN STATUS_PACKAGING
    ELSE IF step = "upload" THEN STATUS_TRANSFERRING
    ELSE IF step = "upload complete" THEN STATUS_VERIFYING
    ELSE IF step = "completed locally" THEN STATUS_COMPLETED
    ELSE IF step = "except" THEN STATUS_FAILED
    ELSE IF step = "sending email" THEN STATUS_NOTIFYING_SENDER
    ELSE STATUS_COMPLETED

status_at_verifying_before_transferring(step) ==
    IF step = "initialize" THEN STATUS_PENDING
    ELSE IF step = "zip" THEN STATUS_PACKAGING
    ELSE IF step = "package created" THEN STATUS_AWAITING_TRANSFER
    ELSE IF step = "upload" THEN STATUS_VERIFYING
    ELSE IF step = "upload complete" THEN STATUS_TRANSFERRING
    ELSE IF step = "completed locally" THEN STATUS_COMPLETED
    ELSE IF step = "except" THEN STATUS_FAILED
    ELSE IF step = "sending email" THEN STATUS_NOTIFYING_SENDER
    ELSE STATUS_COMPLETED

\* the status each update_status call of run_job_in_thread reports
status_at(step) ==
    IF step = "initialize" THEN STATUS_PENDING
    ELSE IF step = "zip" THEN STATUS_PACKAGING
    ELSE IF step = "package created" THEN STATUS_AWAITING_TRANSFER
    ELSE IF step = "upload" THEN STATUS_TRANSFERRING
    ELSE IF step = "upload complete" THEN STATUS_VERIFYING
    ELSE IF step = "completed locally" THEN STATUS_COMPLETED
    ELSE IF step = "except" THEN STATUS_FAILED
    ELSE IF step = "sending email" THEN STATUS_NOTIFYING_SENDER
    ELSE STATUS_COMPLETED

\* the providers run_job_in_thread has a connector for
connectors == {"gdrive", "onedrive"}

\* output_root_for_zip is set: dest_location for a local destination (always
\* set, destinations.location is NOT NULL), else load_setting('staging_path')
output_root_set(dest_provider, staging) ==
    IF dest_provider = "local" THEN TRUE ELSE staging

\* -------------------------------------------- job_runner.py: the archive
\* the rename probe: the first count from `count` on whose name_count.ext
\* does not exist
RECURSIVE probe(_, _)
probe(taken, count) ==
    IF count \notin taken THEN count ELSE probe(taken, count + 1)

\* resolve_save_conflict with an explicit policy; taken is the set of k whose
\* name (k = 0: the desired path) exists; the result is the k to write, or None
resolve_save_conflict(taken, on_conflict_action) ==
    IF 0 \notin taken THEN 0
    ELSE IF on_conflict_action = OVERWRITE THEN 0
    ELSE IF on_conflict_action = RENAME THEN probe(taken, 1)
    ELSE None

\* a zip_path that writes the archive under a new name when the resolver
\* returns None (a faulty variant)
zip_path_cancel_renames(F, job_id, on_conflict_action) ==
    LET taken == {k \in 0..Cardinality(F) : <<job_id, k>> \in F}
    IN  IF 0 \in taken THEN <<"renamed", probe(taken, 1)>> ELSE <<"created", 0>>

\* zip_path: <<action, dest>> for the archive of job job_id
zip_path(F, job_id, on_conflict_action) ==
    LET taken == {k \in 0..Cardinality(F) : <<job_id, k>> \in F}
        zip_dest == resolve_save_conflict(taken, on_conflict_action)
    IN  IF zip_dest = None THEN <<"cancelled", None>>
        ELSE IF zip_dest # 0 THEN <<"renamed", zip_dest>>
        ELSE IF 0 \in taken THEN <<"overwritten", zip_dest>>
        ELSE <<"created", zip_dest>>

\* ------------------------------ job_runner.py: resolve_save_conflict on paths
\* A path is the sequence of its characters.  NoPath stands for the None that
\* resolve_save_conflict returns.
NoPath == <<>>

\* str.rfind, counted from 1: 0 when c does not occur in p
rfind(p, c) ==
    LET at == {i \in 1..Len(p) : p[i] = c}
    IN  IF at = {} THEN 0 ELSE CHOOSE i \in at : \A k \in at : k <= i

\* os.path.splitext: the extension starts at the last dot of the last
\* component, unless only dots come before it in that component
splitext(p) ==
    LET sepIndex == rfind(p, "/")
        dotIndex == rfind(p, ".")
    IN  IF dotIndex > sepIndex /\ \E i \in (sepIndex + 1)..(dotIndex - 1) : p[i] # "."
        THEN <<SubSeq(p, 1, dotIndex - 1), SubSeq(p, dotIndex, Len(p))>>
        ELSE <<p, <<>>>>

\* the decimal digits of a count, as f"{count}" writes them
Digits == <<"0", "1", "2", "3", "4", "5", "6", "7", "8", "9">>

RECURSIVE str(_)
str(count) ==
    IF count < 10 THEN <<Digits[count + 1]>>
    ELSE str(count \div 10) \o <<Digits[(count % 10) + 1]>>

\* f"{name}_{count}{ext}"
new_dest(zip_dest, count) ==
    LET name == splitext(zip_dest)[1]
        ext == splitext(zip_dest)[2]
    IN  name \o <<"_">> \o str(count) \o ext

\* a rename that takes the first candidate without looking at the disk (a
\* faulty variant)
rename_unprobed(D, zip_dest, count) == new_dest(zip_dest, count)

\* lines 90-95: while True over count
RECURSIVE rename(_, _, _)
rename(D, zip_dest, count) ==
    IF new_dest(zip_dest, count) \notin D THEN new_dest(zip_dest, count)
    ELSE rename(D, zip_dest, count + 1)

\* line 84: the value of an enum member, a string as it is
action_str(on_conflict_action) ==
    CASE on_conflict_action = ENUM_OVERWRITE -> OVERWRITE
      [] on_conflict_action = ENUM_RENAME -> RENAME
      [] on_conflict_action = ENUM_CANCEL -> CANCEL
      [] OTHER -> on_conflict_action

\* whether the call reaches messagebox.askyesnocancel (line 100)
prompts(D, zip_dest, on_conflict_action) ==
    zip_dest \in D /\ action_str(on_conflict_action) \notin {OVERWRITE, RENAME, CANCEL}

\* a resolver that reads the policy before it looks at the disk (a faulty
\* variant)
resolve_policy_first(D, zip_dest, on_conflict_action, response) ==
    IF action_str(on_conflict_action) = CANCEL THEN NoPath
    ELSE IF action_str(on_conflict_action) = RENAME THEN rename(D, zip_dest, 1)
    ELSE zip_dest

\* lines 80-109, with tkinter imported: response is what the user answers to
\* the prompt ("yes", "no" or "cancel"), read only if the prompt is shown
resolve_save_conflict_path(D, zip_dest, on_conflict_action, response) ==
    IF zip_dest \notin D THEN zip_dest
    ELSE IF action_str(on_conflict_action) = OVERWRITE THEN zip_dest
    ELSE IF action_str(on_conflict_action) = RENAME THEN rename(D, zip_dest, 1)
    ELSE IF action_str(on_conflict_action) = CANCEL THEN NoPath
    ELSE IF response = "yes" THEN zip_dest
    ELSE IF response = "no" THEN rename(D, zip_dest, 1)
    ELSE NoPath

\* the desired paths of the calls: archive.zip as a.z, one with a dot in its
\* name, one without an extension and one that is a dot file
DesiredPaths ==
    {<<"a", ".", "z">>, <<"a", ".", "b", ".", "z">>, <<"d", ".", "d", "/", "a">>, <<".", "z">>}

\* what the disk may hold at the start
InitialPaths == {<<"a", ".", "z">>, <<"a", "_", "1", ".", "z">>, <<"a", "_", "2", ".", "z">>,
                 <<"d", ".", "d", "/", "a">>, <<".", "z">>}

Policies == {OVERWRITE, RENAME, CANCEL, ENUM_OVERWRITE, ENUM_RENAME, ENUM_CANCEL, NoAction}
Responses == {"yes", "no", "cancel"}

NoCall == [zip_dest |-> NoPath, on_conflict_action |-> NoAction, prompted |-> FALSE,
           result |-> NoPath, returned |-> FALSE]

\* zip_path line 145: one call of resolve_save_conflict
call_resolve_save_conflict(zip_dest, on_conflict_action, response) ==
    /\ ~resolved.returned
    /\ resolved' = [zip_dest |-> zip_dest, on_conflict_action |-> on_conflict_action,
                    prompted |-> prompts(disk, zip_dest, on_conflict_action),
                    result |-> resolve_save_conflict_path(disk, zip_dest,
                                                          on_conflict_action, response),
                    returned |-> TRUE]
    /\ UNCHANGED <<now, jobs, staging_path, files, running, runs, tk, pass, utc_offset, disk, manager_vars, exit_vars, restore_vars>>

\* zip_path lines 146-153: nothing is written after None, otherwise
\* zipfile.ZipFile(zip_dest, "w") creates or truncates the file
zip_path_write ==
    /\ resolved.returned
    /\ resolved.result # NoPath => Cardinality(disk \cup {resolved.result}) <= MaxPaths
    /\ disk' = IF resolved.result = NoPath THEN disk ELSE disk \cup {resolved.result}
    /\ resolved' = NoCall
    /\ UNCHANGED <<now, jobs, staging_path, files, running, runs, tk, pass, utc_offset, manager_vars, exit_vars, restore_vars>>

\* --------------------------------- job_manager.py: listeners and the lock
\* The listeners are zero-argument callbacks.  "reader" calls
\* get_running_jobs, as _update_running_jobs_ui does (run_jobs_ui.py:217);
\* "raiser" raises an Exception.
Listeners == {"reader", "raiser"}

in_list(L, listener) == \E i \in 1..Len(L) : L[i] = listener

\* an add_listener without the test of line 72 (a faulty variant)
add_listener_appends(L, listener) == Append(L, listener)

\* lines 71-73
add_listener(L, listener) ==
    IF ~in_list(L, listener) THEN Append(L, listener) ELSE L

\* lines 75-79: list.remove takes out the first occurrence; its ValueError
\* is caught
remove_listener(L, listener) ==
    IF ~in_list(L, listener) THEN L
    ELSE LET i == CHOOSE i \in 1..Len(L) :
                      L[i] = listener /\ \A k \in 1..(i - 1) : L[k] # listener
         IN  SubSeq(L, 1, i - 1) \o SubSeq(L, i + 1, Len(L))

\* the keys and the statuses the calling threads use
ManagerKeys == {1}
ManagerStatuses == {STATUS_PACKAGING, STATUS_COMPLETED}

\* a calling thread: where it is in add_job, update_job_status or remove_job
\* (idle, with, locked, notify, returned), its arguments, the index of the
\* for loop of _notify_listeners, the listeners it has called or scheduled,
\* whether an exception reached it, whether _listeners was changed since
\* the loop began, and the listeners that have been in _listeners ever since
\* the loop began
NoCaller ==
    [pc |-> "idle", op |-> "none", job_id |-> 0, status |-> NoStatus, i |-> 0,
     invoked |-> <<>>, raised |-> FALSE, modified |-> FALSE, stayed |-> {}]

NoSnapshot == [taken |-> FALSE, items |-> {}]
NoApi == [op |-> "none", listener |-> "none", known |-> FALSE, raised |-> FALSE]

\* line 68: list(_running_jobs.values()) is a new list of the dicts of the
\* registry; then is the status read when the list was made
snapshot(R) ==
    [taken |-> TRUE,
     items |-> {[ref |-> R[k].stop_event, key |-> k, then |-> R[k].status,
                 status |-> R[k].status] : k \in DOMAIN R}]

\* the dicts of a held list are the dicts of the registry: a write to
\* _running_jobs[job_id]['status'] (line 52) shows in the list
shared(H, R) ==
    [H EXCEPT !.items =
        {IF \E k \in DOMAIN R : R[k].stop_event = it.ref
         THEN [it EXCEPT !.status =
                  R[CHOOSE k \in DOMAIN R : R[k].stop_event = it.ref].status]
         ELSE it : it \in @}]

\* a with block that has not released the lock when the function goes on to
\* _notify_listeners (a faulty variant)
with_exit_keeps_lock(t) == t

\* the end of a with _lock block: the lock is free at lines 40, 47 and 53
with_exit(t) == None

\* a for loop without the try of lines 85-89 (a faulty variant)
notify_inline_unguarded(f, listener) ==
    IF listener = "raiser"
    THEN [f EXCEPT !.pc = "returned", !.raised = TRUE, !.invoked = Append(@, listener)]
    ELSE [f EXCEPT !.i = @ + 1, !.invoked = Append(@, listener)]

\* lines 84-89: one listener called in the thread of the caller; what it
\* raises is caught
notify_inline(f, listener) ==
    [f EXCEPT !.i = @ + 1, !.invoked = Append(@, listener)]

\* a thread calls add_job (with a new threading.Event), update_job_status or
\* remove_job
manager_call(t, op, job_id, status) ==
    /\ callers[t].pc \in {"idle", "returned"}
    /\ Len(tk) < MaxQueued
    /\ op = "add_job" => events < MaxEvents
    /\ callers' = [callers EXCEPT ![t] =
                      [NoCaller EXCEPT !.pc = "with", !.op = op, !.job_id = job_id,
                                       !.status = IF op = "update_job_status"
                                                  THEN status ELSE NoStatus]]
    /\ UNCHANGED <<now, jobs, staging_path, files, running, runs, tk, pass, utc_offset,
                   resolver_vars, exit_vars, restore_vars, listeners, root, lock, events, held, api>>

\* with _lock: the thread takes the lock when it is free (lines 30, 44, 50)
with_enter(t) ==
    /\ callers[t].pc = "with"
    /\ lock = None
    /\ lock' = t
    /\ callers' = [callers EXCEPT ![t].pc = "locked"]
    /\ UNCHANGED <<now, jobs, staging_path, files, running, runs, tk, pass, utc_offset,
                   resolver_vars, exit_vars, restore_vars, listeners, root, events, held, api>>

\* the body of the with block (lines 31-39, 45-46, 51-52) and its end
with_body(t) ==
    /\ callers[t].pc = "locked"
    /\ running' = CASE callers[t].op = "add_job" ->
                        add_job(running, callers[t].job_id, "backup", events + 1)
                    [] callers[t].op = "remove_job" ->
                        remove_job(running, callers[t].job_id)
                    [] OTHER ->
                        update_job_status(running, callers[t].job_id, callers[t].status)
    /\ events' = IF callers[t].op = "add_job" THEN events + 1 ELSE events
    /\ held' = shared(held, running')
    /\ lock' = with_exit(t)
    /\ callers' = [callers EXCEPT ![t].pc = "notify",
                                  ![t].stayed = {listeners[n] : n \in DOMAIN listeners}]
    /\ UNCHANGED <<now, jobs, staging_path, files, runs, tk, pass, utc_offset,
                   resolver_vars, exit_vars, restore_vars, listeners, root, api>>

\* _notify_listeners (lines 81-94), one turn of its for loop at a step: the
\* loop reads _listeners[i] of the list as it is now and ends when i is past
\* its end.  Without a root the listener runs here, and "reader" has to take
\* the lock; with a root the call is queued on the main loop.
notify_listeners(t) ==
    /\ callers[t].pc = "notify"
    /\ IF callers[t].i >= Len(listeners)
       THEN /\ callers' = [callers EXCEPT ![t].pc = "returned"]
            /\ lock' = IF lock = t THEN None ELSE lock
            /\ UNCHANGED tk
       ELSE LET listener == listeners[callers[t].i + 1]
            IN  IF root
                THEN /\ tk' = Append(tk, [call |-> "listener", listener |-> listener])
                     /\ callers' = [callers EXCEPT ![t].i = @ + 1,
                                                   ![t].invoked = Append(@, listener)]
                     /\ UNCHANGED lock
                ELSE /\ listener = "reader" => lock = None
                     /\ callers' = [callers EXCEPT ![t] = notify_inline(@, listener)]
                     /\ UNCHANGED <<tk, lock>>
    /\ UNCHANGED <<now, jobs, staging_path, files, running, runs, pass, utc_offset,
                   resolver_vars, exit_vars, restore_vars, listeners, root, events, held, api>>

\* the main loop runs a queued listener; "reader" has to take the lock
tk_listener ==
    /\ tk # <<>>
    /\ Head(tk).call = "listener"
    /\ Head(tk).listener = "reader" => lock = None
    /\ tk' = Tail(tk)
    /\ UNCHANGED <<now, jobs, staging_path, files, running, runs, pass, utc_offset,
                   resolver_vars, manager_vars, exit_vars, restore_vars>>

\* the threads that are in the for loop of _notify_listeners, or have left
\* it, have had the list changed since their loop began
list_changed(C, L1, L2) ==
    [t \in DOMAIN C |->
        IF C[t].pc = "notify" /\ L1 # L2
        THEN [C[t] EXCEPT !.modified = TRUE,
                          !.stayed = @ \cap {L2[n] : n \in DOMAIN L2}]
        ELSE IF C[t].pc = "returned" /\ L1 # L2 THEN [C[t] EXCEPT !.modified = TRUE]
        ELSE C[t]]

\* run_jobs_ui.py:468 and 463: the window registers and deregisters
call_add_listener(listener) ==
    /\ listeners' = add_listener(listeners, listener)
    /\ api' = [op |-> "add_listener", listener |-> listener,
               known |-> in_list(listeners, listener), raised |-> FALSE]
    /\ callers' = list_changed(callers, listeners, listeners')
    /\ UNCHANGED <<now, jobs, staging_path, files, running, runs, tk, pass, utc_offset,
                   resolver_vars, exit_vars, restore_vars, root, lock, events, held>>

call_remove_listener(listener) ==
    /\ listeners' = remove_listener(listeners, listener)
    /\ api' = [op |-> "remove_listener", listener |-> listener,
               known |-> in_list(listeners, listener), raised |-> FALSE]
    /\ callers' = list_changed(callers, listeners, listeners')
    /\ UNCHANGED <<now, jobs, staging_path, files, running, runs, tk, pass, utc_offset,
                   resolver_vars, exit_vars, restore_vars, root, lock, events, held>>

\* a caller of get_running_jobs keeps the list it gets (Main_menu.py:68,
\* run_jobs_ui.py:217); one list is followed
call_get_running_jobs ==
    /\ ~held.taken
    /\ lock = None
    /\ running # [k \in {} |-> None]
    /\ held' = snapshot(running)
    /\ UNCHANGED <<now, jobs, staging_path, files, running, runs, tk, pass, utc_offset,
                   resolver_vars, exit_vars, restore_vars, listeners, root, lock, callers, events, api>>

\* ---------------------------------------------- add_job_ui.py: _save_job
\* the values the model enters in the Add Job window
ScheduleHours == {2}
ScheduleMinutes == {30}
ScheduleDates == {0}
ScheduleDaysOfWeek == {2}
UtcOffsets == {60}

\* days_until_next of the Weekly branch
days_until_next(target_day_of_week, current_day_of_week) ==
    IF target_day_of_week - current_day_of_week <= 0
    THEN target_day_of_week - current_day_of_week + 7
    ELSE target_day_of_week - current_day_of_week

\* next_run_at as _save_job computes it from the local wall clock `local`,
\* given as the instant the scheduler will read back from the stored text:
\* a naive text is read back as UTC, the Once text carries its offset
save_job_next_run_at(schedule, local, h, m, schedule_date, schedule_day_of_week, offset) ==
    IF schedule = "Daily" THEN next_daily(local, h, m)
    ELSE IF schedule = "Hourly" THEN next_hourly(local, m)
    ELSE IF schedule = "Once" THEN schedule_date * MinutesPerDay + HM(h, m) - offset
    ELSE IF schedule = "Weekly"
    THEN ((local \div MinutesPerDay)
            + days_until_next(schedule_day_of_week, weekday(local))) * MinutesPerDay + HM(h, m)
    ELSE None

\* database.add_job: the row of a new job
new_row(schedule, h, m, schedule_date, schedule_day_of_week, provider, send_email, next_run_at) ==
    [dest_provider |-> provider,
     schedule |-> schedule,
     schedule_hour |-> h,
     schedule_minute |-> m,
     schedule_date |-> schedule_date,
     schedule_day_of_week |-> schedule_day_of_week,
     send_email_on_completion |-> send_email,
     status |-> STATUS_IDLE,
     last_run_at |-> None,
     last_run_status |-> NoStatus,
     next_run_at |-> next_run_at]

\* _save_job for a new job (job_to_edit is None)
save_job(schedule, h, m, provider, send_email) ==
    /\ Cardinality(DOMAIN jobs) < NumJobs
    /\ \E t \in ClockReads, d \in ScheduleDates, w \in ScheduleDaysOfWeek :
        LET job_id == Cardinality(DOMAIN jobs) + 1
            nra == save_job_next_run_at(schedule, t + utc_offset, h, m, d, w, utc_offset)
            row == new_row(schedule, h, m, d, w, provider, send_email, nra)
        IN  /\ now' = t
            /\ jobs' = [k \in DOMAIN jobs \cup {job_id} |->
                            IF k = job_id THEN row ELSE jobs[k]]
    /\ UNCHANGED <<staging_path, files, running, runs, tk, pass, utc_offset, resolver_vars, manager_vars, exit_vars, restore_vars>>

\* ------------------------------------- job_runner.py: run_job_in_thread
\* the frame of a thread that was never created
NoRun ==
    [pc |-> "unused", job_id |-> 0, dest_provider |-> "local", schedule |-> "Manual",
     schedule_hour |-> 0, schedule_minute |-> 0, send_email_on_completion |-> FALSE,
     on_conflict |-> RENAME, root_widget |-> FALSE, refresh_callback |-> FALSE,
     stop_event |-> FALSE, started_by |-> "nobody",
     job_status_final |-> STATUS_FAILED, last_run_time |-> None, next_run_at |-> None,
     dest |-> None, remote_uri |-> None, final_status_db |-> NoStatus,
     exception |-> "none", statuses |-> <<>>, db_writes |-> <<>>, email |-> "none",
     refreshed |-> 0]

\* threading.Thread(target=run_job_in_thread, args=(job, stop_event, on_conflict,
\* root_widget, None, None, refresh_callback)).start(): job is the row as read
new_thread(row, job_id, on_conflict, root_widget, refresh_callback, started_by) ==
    [NoRun EXCEPT !.pc = "start", !.job_id = job_id,
                  !.dest_provider = row.dest_provider, !.schedule = row.schedule,
                  !.schedule_hour = row.schedule_hour,
                  !.schedule_minute = row.schedule_minute,
                  !.send_email_on_completion = row.send_email_on_completion,
                  !.on_conflict = on_conflict, !.root_widget = root_widget,
                  !.refresh_callback = refresh_callback, !.started_by = started_by]

FreeRuns == {r \in RunIds : runs[r].pc = "unused"}
first_free(RS) == CHOOSE r \in RunIds : RS[r].pc = "unused" /\ \A q \in RunIds : RS[q].pc = "unused" => r <= q

\* run_jobs_ui._run_job_async_target: "run now" on a job whose source path exists
run_job_async_target(job_id) ==
    /\ job_id \in DOMAIN jobs
    /\ FreeRuns # {}
    /\ runs' = [runs EXCEPT ![first_free(runs)] =
                    new_thread(jobs[job_id], job_id, RENAME, TRUE, TRUE, "ui")]
    /\ UNCHANGED <<now, jobs, staging_path, files, running, tk, pass, utc_offset, resolver_vars, manager_vars, exit_vars, restore_vars>>

\* run_job_in_thread called without a root widget, as test_job_runner.py does
call_run_job_in_thread(job_id, on_conflict, refresh_callback) ==
    /\ job_id \in DOMAIN jobs
    /\ FreeRuns # {}
    /\ runs' = [runs EXCEPT ![first_free(runs)] =
                    new_thread(jobs[job_id], job_id, on_conflict, FALSE, refresh_callback, "call")]
    /\ UNCHANGED <<now, jobs, staging_path, files, running, tk, pass, utc_offset, resolver_vars, manager_vars, exit_vars, restore_vars>>

\* db_update_job_status: through root_widget.after(0, ...) when the run has a
\* root widget, else at once; the jobs table and the Tk queue afterwards
db_update_jobs(f, J, status, last_run_at, last_run_status, next_run_at) ==
    IF f.root_widget THEN J
    ELSE database_update_job_status(J, f.job_id, status, last_run_at, last_run_status, next_run_at)

db_update_tk(f, T, status, last_run_at, last_run_status, next_run_at) ==
    IF f.root_widget
    THEN Append(T, [call |-> "update_job_status", job_id |-> f.job_id, status |-> status,
                    last_run_at |-> last_run_at, last_run_status |-> last_run_status,
                    next_run_at |-> next_run_at])
    ELSE T

\* os.remove(dest) on the files of the output root
os_remove(F, path) == F \ {path}

\* update_status(message, current_job_status): the frame records the call
called(f, status) == [f EXCEPT !.statuses = Append(@, status)]

\* db_update_job_status(job_id, status, last_run_at, ...): the frame records
\* the call
wrote(f, status, last_run_at) ==
    [f EXCEPT !.db_writes = Append(@, [status |-> status, last_run_at |-> last_run_at])]

\* lines 204-211: job_manager.add_job(job_data, 'backup', stop_event)
run_job_in_thread_entry(r) ==
    /\ runs[r].pc = "start"
    /\ running' = add_job(running, runs[r].job_id, "backup", r)
    /\ runs' = [runs EXCEPT ![r].pc = "entered"]
    /\ UNCHANGED <<now, jobs, staging_path, files, tk, pass, utc_offset, resolver_vars, manager_vars, exit_vars, restore_vars>>

\* lines 213-224: Pending to the jobs table and the registry, then
\* last_run_time and next_run_at
run_job_in_thread_initialize(r) ==
    /\ runs[r].pc = "entered"
    /\ jobs' = db_update_jobs(runs[r], jobs, STATUS_PENDING, None, NoStatus, None)
    /\ tk' = db_update_tk(runs[r], tk, STATUS_PENDING, None, NoStatus, None)
    /\ running' = update_job_status(running, runs[r].job_id, status_at("initialize"))
    /\ \E t \in ClockReads :
        /\ now' = t
        /\ runs' = [runs EXCEPT ![r] =
              [wrote(called(@, status_at("initialize")), STATUS_PENDING, None) EXCEPT
                  !.pc = "checkpoint",
                  !.last_run_time = t,
                  !.next_run_at = next_run_at_of(runs[r].schedule, t, runs[r].schedule_hour,
                                                 runs[r].schedule_minute)]]
    /\ UNCHANGED <<staging_path, files, pass, utc_offset, resolver_vars, manager_vars, exit_vars, restore_vars>>

\* lines 230-239: the cancellation checkpoint, Packaging, the output root
run_job_in_thread_checkpoint(r) ==
    /\ runs[r].pc = "checkpoint"
    /\ IF runs[r].stop_event
       THEN /\ runs' = [runs EXCEPT ![r].pc = "interrupted",
                                       ![r].exception = "Job was cancelled before start."]
            /\ UNCHANGED running
       ELSE /\ running' = update_job_status(running, runs[r].job_id, status_at("zip"))
            /\ runs' = [runs EXCEPT ![r] =
                  IF output_root_set(runs[r].dest_provider, staging_path)
                  THEN [called(@, status_at("zip")) EXCEPT !.pc = "packing"]
                  ELSE [called(@, status_at("zip")) EXCEPT
                           !.pc = "error",
                           !.exception = "Destination/Staging path not configured."]]
    /\ UNCHANGED <<now, jobs, staging_path, files, tk, pass, utc_offset, resolver_vars, manager_vars, exit_vars, restore_vars>>

\* lines 241-253: zip_path in the process pool, then Awaiting Transfer
run_job_in_thread_packaging(r) ==
    /\ runs[r].pc = "packing"
    /\ \E raises \in BOOLEAN :
        LET result == zip_path(files, runs[r].job_id, runs[r].on_conflict)
        IN  IF raises
            THEN /\ runs' = [runs EXCEPT ![r].pc = "error",
                                            ![r].exception = "zip_path raised"]
                 /\ UNCHANGED <<files, running>>
            ELSE IF result[1] = "cancelled" \/ result[2] = None
            THEN /\ runs' = [runs EXCEPT
                                ![r].pc = "interrupted",
                                ![r].exception = "Zip operation was cancelled or failed."]
                 /\ UNCHANGED <<files, running>>
            ELSE /\ files' = files \cup {<<runs[r].job_id, result[2]>>}
                 /\ running' = update_job_status(running, runs[r].job_id,
                                                 status_at("package created"))
                 /\ runs' = [runs EXCEPT ![r] =
                       [called(@, status_at("package created")) EXCEPT
                           !.pc = "packaged", !.dest = result[2]]]
    /\ UNCHANGED <<now, jobs, staging_path, tk, pass, utc_offset, resolver_vars, manager_vars, exit_vars, restore_vars>>

\* lines 256-257 and 278-284: Transferring for a cloud provider, else the
\* local completion
run_job_in_thread_branch(r) ==
    /\ runs[r].pc = "packaged"
    /\ IF runs[r].dest_provider \in connectors
       THEN /\ running' = update_job_status(running, runs[r].job_id, status_at("upload"))
            /\ runs' = [runs EXCEPT ![r] =
                  [called(@, status_at("upload")) EXCEPT !.pc = "uploading"]]
       ELSE /\ running' = update_job_status(running, runs[r].job_id,
                                            status_at("completed locally"))
            /\ runs' = [runs EXCEPT ![r] =
                  [called(@, status_at("completed locally")) EXCEPT
                      !.pc = "final",
                      !.job_status_final = STATUS_COMPLETED,
                      !.final_status_db = final_status_db_of(runs[r].schedule)]]
    /\ UNCHANGED <<now, jobs, staging_path, files, tk, pass, utc_offset, resolver_vars, manager_vars, exit_vars, restore_vars>>

\* lines 259-277: upload_file, then Verifying and os.remove(dest); remote_uri
\* is None until the upload has returned an id, and 1 for the uri of that id
run_job_in_thread_upload(r) ==
    /\ runs[r].pc = "uploading"
    /\ \E remote_file_id \in {"id", "none", "raises"} :
        IF remote_file_id # "id"
        THEN /\ runs' = [runs EXCEPT
                            ![r].pc = "error",
                            ![r].exception = IF remote_file_id = "none"
                                             THEN "Upload failed." ELSE "upload_file raised"]
             /\ UNCHANGED <<files, running>>
        ELSE /\ running' = update_job_status(running, runs[r].job_id,
                                             status_at("upload complete"))
             /\ files' = os_remove(files, <<runs[r].job_id, runs[r].dest>>)
             /\ runs' = [runs EXCEPT ![r] =
                   [called(@, status_at("upload complete")) EXCEPT
                       !.job_status_final = STATUS_COMPLETED,
                       !.remote_uri = 1,
                       !.pc = IF <<runs[r].job_id, runs[r].dest>> \in files
                              THEN "final" ELSE "error",
                       !.exception = IF <<runs[r].job_id, runs[r].dest>> \in files
                                     THEN @ ELSE "FileNotFoundError",
                       !.final_status_db =
                           IF <<runs[r].job_id, runs[r].dest>> \in files
                           THEN final_status_db_of(runs[r].schedule) ELSE @]]
    /\ UNCHANGED <<now, jobs, staging_path, tk, pass, utc_offset, resolver_vars, manager_vars, exit_vars, restore_vars>>

\* lines 286-287: the final write to the jobs table
run_job_in_thread_final(r) ==
    /\ runs[r].pc = "final"
    /\ jobs' = db_update_jobs(runs[r], jobs, runs[r].final_status_db, runs[r].last_run_time,
                              runs[r].job_status_final, runs[r].next_run_at)
    /\ tk' = db_update_tk(runs[r], tk, runs[r].final_status_db, runs[r].last_run_time,
                          runs[r].job_status_final, runs[r].next_run_at)
    /\ runs' = [runs EXCEPT ![r] =
          [wrote(@, runs[r].final_status_db, runs[r].last_run_time) EXCEPT
              !.pc = "finally"]]
    /\ UNCHANGED <<now, staging_path, files, running, pass, utc_offset, resolver_vars, manager_vars, exit_vars, restore_vars>>

\* a handler that reports Failed but writes nothing to the jobs table (a
\* faulty variant)
handle_failure_without_write(r) ==
    /\ running' = update_job_status(running, runs[r].job_id, status_at("except"))
    /\ runs' = [runs EXCEPT ![r] =
          [called(@, status_at("except")) EXCEPT
              !.pc = "finally", !.job_status_final = STATUS_FAILED]]
    /\ UNCHANGED <<now, jobs, tk, staging_path, files, pass, utc_offset, resolver_vars, manager_vars, exit_vars, restore_vars>>

\* the body shared by the two handlers: Failed to the registry, Idle to the table
handle_failure(r) ==
    /\ running' = update_job_status(running, runs[r].job_id, status_at("except"))
    /\ jobs' = db_update_jobs(runs[r], jobs, failure_status_db, runs[r].last_run_time,
                              STATUS_FAILED, runs[r].next_run_at)
    /\ tk' = db_update_tk(runs[r], tk, failure_status_db, runs[r].last_run_time,
                          STATUS_FAILED, runs[r].next_run_at)
    /\ runs' = [runs EXCEPT ![r] =
          [wrote(called(@, status_at("except")), failure_status_db, runs[r].last_run_time)
           EXCEPT
              !.pc = "finally", !.job_status_final = STATUS_FAILED]]
    /\ UNCHANGED <<now, staging_path, files, pass, utc_offset, resolver_vars, manager_vars, exit_vars, restore_vars>>

\* lines 289-294: except InterruptedError
run_job_in_thread_except_interrupted(r) ==
    /\ runs[r].pc = "interrupted"
    /\ handle_failure(r)

\* a handler that sends a run whose upload returned no id back to the upload
\* (a faulty variant)
except_exception_retries_upload(r) ==
    /\ runs[r].pc = "error"
    /\ IF runs[r].exception = "Upload failed."
       THEN /\ runs' = [runs EXCEPT ![r].pc = "uploading"]
            /\ UNCHANGED <<now, jobs, tk, running, staging_path, files, pass, utc_offset, resolver_vars, manager_vars, exit_vars, restore_vars>>
       ELSE handle_failure(r)

\* lines 295-300: except Exception
run_job_in_thread_except_exception(r) ==
    /\ runs[r].pc = "error"
    /\ handle_failure(r)

\* line 302: finally, job_manager.remove_job(job_id)
run_job_in_thread_finally(r) ==
    /\ runs[r].pc = "finally"
    /\ running' = remove_job(running, runs[r].job_id)
    /\ runs' = [runs EXCEPT ![r].pc =
                   IF runs[r].send_email_on_completion THEN "notify" ELSE "exit"]
    /\ UNCHANGED <<now, jobs, staging_path, files, tk, pass, utc_offset, resolver_vars, manager_vars, exit_vars, restore_vars>>

\* lines 327-328: Notifying Sender
run_job_in_thread_notify(r) ==
    /\ runs[r].pc = "notify"
    /\ running' = update_job_status(running, runs[r].job_id, status_at("sending email"))
    /\ runs' = [runs EXCEPT ![r] =
          [called(@, status_at("sending email")) EXCEPT !.pc = "sending"]]
    /\ UNCHANGED <<now, jobs, staging_path, files, tk, pass, utc_offset, resolver_vars, manager_vars, exit_vars, restore_vars>>

\* a notification step that turns a failed send into a failed run (a faulty
\* variant)
notified_escalates(r) ==
    /\ runs[r].pc = "sending"
    /\ \E sent \in BOOLEAN :
        IF sent
        THEN /\ running' = update_job_status(running, runs[r].job_id, STATUS_COMPLETED)
             /\ runs' = [runs EXCEPT ![r] =
                   [called(@, STATUS_COMPLETED) EXCEPT !.pc = "exit", !.email = "sent"]]
             /\ UNCHANGED <<jobs, tk>>
        ELSE /\ running' = update_job_status(running, runs[r].job_id, STATUS_FAILED)
             /\ jobs' = db_update_jobs(runs[r], jobs, STATUS_IDLE, runs[r].last_run_time,
                                       STATUS_FAILED, runs[r].next_run_at)
             /\ tk' = db_update_tk(runs[r], tk, STATUS_IDLE, runs[r].last_run_time,
                                   STATUS_FAILED, runs[r].next_run_at)
             /\ runs' = [runs EXCEPT ![r] =
                   [called(@, STATUS_FAILED) EXCEPT
                       !.pc = "exit", !.email = "failed",
                       !.job_status_final = STATUS_FAILED]]
    /\ UNCHANGED <<now, staging_path, files, pass, utc_offset, resolver_vars, manager_vars, exit_vars, restore_vars>>

\* lines 329-332: send_gmail_notification, which logs its own failure
\* (lines 37-55) and returns either way, then Completed
run_job_in_thread_notified(r) ==
    /\ runs[r].pc = "sending"
    /\ running' = update_job_status(running, runs[r].job_id, status_at("email sent"))
    /\ \E sent \in BOOLEAN :
        runs' = [runs EXCEPT ![r] =
              [called(@, status_at("email sent")) EXCEPT
                  !.pc = "exit", !.email = IF sent THEN "sent" ELSE "failed"]]
    /\ UNCHANGED <<now, jobs, staging_path, files, tk, pass, utc_offset, resolver_vars, manager_vars, exit_vars, restore_vars>>

\* lines 334-338: the refresh callback, then the thread ends
run_job_in_thread_exit(r) ==
    /\ runs[r].pc = "exit"
    /\ tk' = IF runs[r].refresh_callback /\ runs[r].root_widget
             THEN Append(tk, [call |-> "refresh_callback", run |-> r])
             ELSE tk
    /\ runs' = [runs EXCEPT ![r].pc = "done",
                            ![r].refreshed =
                                IF runs[r].refresh_callback /\ ~runs[r].root_widget
                                THEN @ + 1 ELSE @]
    /\ UNCHANGED <<now, jobs, staging_path, files, running, pass, utc_offset, resolver_vars, manager_vars, exit_vars, restore_vars>>

\* the Tk main loop runs the oldest call queued with after(0, ...)
tk_mainloop ==
    /\ tk # <<>>
    /\ LET c == Head(tk)
       IN  IF c.call = "update_job_status"
           THEN /\ jobs' = database_update_job_status(jobs, c.job_id, c.status, c.last_run_at,
                                                      c.last_run_status, c.next_run_at)
                /\ UNCHANGED runs
           ELSE /\ runs' = [runs EXCEPT ![c.run].refreshed = @ + 1]
                /\ UNCHANGED jobs
    /\ tk' = Tail(tk)
    /\ UNCHANGED <<now, staging_path, files, running, pass, utc_offset, resolver_vars, manager_vars, exit_vars, restore_vars>>

\* the Stop button: job_manager.stop_job(job_id) sets the registered stop event
stop_job_clicked(job_id) ==
    /\ \E r \in stop_job(running, job_id) : ~runs[r].stop_event
    /\ runs' = [r \in RunIds |->
                   IF r \in stop_job(running, job_id)
                   THEN [runs[r] EXCEPT !.stop_event = TRUE] ELSE runs[r]]
    /\ UNCHANGED <<now, jobs, staging_path, files, running, tk, pass, utc_offset, resolver_vars, manager_vars, exit_vars, restore_vars>>

\* the Stop All Jobs button (run_jobs_ui.py:447-449)
stop_all_jobs_clicked ==
    /\ \E r \in stop_all_jobs(running) : ~runs[r].stop_event
    /\ runs' = [r \in RunIds |->
                   IF r \in stop_all_jobs(running)
                   THEN [runs[r] EXCEPT !.stop_event = TRUE] ELSE runs[r]]
    /\ UNCHANGED <<now, jobs, staging_path, files, running, tk, pass, utc_offset, resolver_vars, manager_vars, exit_vars, restore_vars>>

\* ------------------------------------------------------ job_scheduler.py
\* the names bound in the module job_scheduler: its imports (lines 2-8) and
\* its own functions
module_globals ==
    {"sched", "threading", "time", "datetime", "timedelta", "timezone", "database",
     "job_manager", "run_job_in_thread", "ConflictResolution",
     "run_job", "check_and_run_jobs", "scheduler_loop", "start_scheduler"}

\* str.lower() on the texts a status column can hold
lower(status) ==
    IF status \in {STATUS_IDLE, "idle", "IDLE"} THEN "idle"
    ELSE IF status = STATUS_PENDING THEN "pending"
    ELSE IF status = STATUS_COMPLETED THEN "completed"
    ELSE IF status = STATUS_FAILED THEN "failed"
    ELSE status

\* a due test that passes over a row whose time is exactly now (a faulty
\* variant)
is_due_strictly_before(row, t) ==
    /\ row.next_run_at # None
    /\ (row.status = NoStatus \/ lower(row.status) = "idle")
    /\ row.next_run_at < t

\* lines 40-47: the row is due at the pass's reading t of the clock
is_due(row, t) ==
    /\ row.next_run_at # None
    /\ (row.status = NoStatus \/ lower(row.status) = "idle")
    /\ row.next_run_at <= t

\* what a pass has done so far: the tables it may write and its own record
\* run_job (lines 10-24) for one due row; exists is os.path.exists(source_path)
run_job(acc, job_id, exists, t) ==
    IF "os" \notin module_globals
    THEN \* line 16 raises NameError, caught at line 50
         [acc EXCEPT !.errors = @ \cup {job_id}]
    ELSE IF ~exists
    THEN [acc EXCEPT !.missing = @ \cup {job_id},
                     !.jobs = database_update_job_status(@, job_id, STATUS_IDLE, t,
                                                         STATUS_FAILED, None)]
    ELSE [acc EXCEPT !.started = Append(@, job_id),
                     !.runs = [@ EXCEPT ![first_free(@)] =
                                  new_thread(acc.jobs[job_id], job_id, RENAME, FALSE, FALSE,
                                             "scheduler")]]

\* a loop without the try of lines 41-51: the first exception ends it (a
\* faulty variant)
RECURSIVE for_job_in_jobs_aborting(_, _, _, _, _)
for_job_in_jobs_aborting(acc, rows, list, exists, t) ==
    IF list = <<>> \/ acc.errors # {} THEN acc
    ELSE LET job_id == Head(list)
             seen == [acc EXCEPT !.evaluated = @ \cup {job_id}]
             after == IF is_due(rows[job_id], t)
                      THEN run_job([seen EXCEPT !.handed = @ \cup {job_id}],
                                   job_id, job_id \in exists, t)
                      ELSE seen
         IN  for_job_in_jobs_aborting(after, rows, Tail(list), exists, t)

\* lines 35-51: the loop over the rows read at the start of the pass
RECURSIVE for_job_in_jobs(_, _, _, _, _)
for_job_in_jobs(acc, rows, list, exists, t) ==
    IF list = <<>> THEN acc
    ELSE LET job_id == Head(list)
             seen == [acc EXCEPT !.evaluated = @ \cup {job_id}]
             after == IF is_due(rows[job_id], t)
                      THEN run_job([seen EXCEPT !.handed = @ \cup {job_id}],
                                   job_id, job_id \in exists, t)
                      ELSE seen
         IN  for_job_in_jobs(after, rows, Tail(list), exists, t)

\* the record of the latest pass: its reading of the clock, the columns it
\* unpacked from the rows it read (lines 37-38),
\* the rows its loop reached, the rows it handed to run_job, which of those
\* have their source on disk, what run_job did with each, and whether an
\* exception left check_and_run_jobs for scheduler_loop (lines 56-59), in
\* this iteration (raised) or in the one before (after_raise)
NoPass == [at |-> None, rows |-> [k \in {} |-> None], evaluated |-> {}, handed |-> {},
           exists |-> {}, started |-> <<>>, missing |-> {}, errors |-> {},
           raised |-> FALSE, after_raise |-> FALSE]

\* check_and_run_jobs (lines 26-51) when it returns: t is its reading of the
\* clock, exists is the set of jobs whose source path is on disk
check_and_run_jobs_returns(t, exists) ==
        LET due == {j \in DOMAIN jobs : is_due(jobs[j], t)}
            acc == for_job_in_jobs(
                       [jobs |-> jobs, runs |-> runs, evaluated |-> {}, handed |-> {},
                        started |-> <<>>, missing |-> {}, errors |-> {}],
                       jobs, list_jobs(jobs), exists, t)
            threads == IF "os" \in module_globals THEN due \cap exists ELSE {}
        IN  /\ Cardinality(FreeRuns) >= Cardinality(threads)
            /\ now' = t
            /\ jobs' = acc.jobs
            /\ runs' = acc.runs
            /\ pass' = [at |-> t,
                        rows |-> [j \in DOMAIN jobs |->
                                     [status |-> jobs[j].status,
                                      next_run_at |-> jobs[j].next_run_at]],
                        evaluated |-> acc.evaluated,
                        handed |-> acc.handed,
                        exists |-> exists \cap acc.handed,
                        started |-> acc.started, missing |-> acc.missing,
                        errors |-> acc.errors,
                        raised |-> FALSE,
                        after_raise |-> pass.raised]

\* one iteration of scheduler_loop (lines 55-60) in which check_and_run_jobs
\* returns
check_and_run_jobs ==
    \E t \in ClockReads, exists \in SUBSET DOMAIN jobs :
        /\ check_and_run_jobs_returns(t, exists)
        /\ UNCHANGED <<staging_path, files, running, tk, utc_offset, resolver_vars, manager_vars, exit_vars, restore_vars>>

\* one iteration of scheduler_loop in which check_and_run_jobs raises:
\* list_jobs calls get_connection outside its own try (database.py line 404),
\* and sqlite3.connect can fail; the exception is caught at line 58
check_and_run_jobs_raises ==
    /\ pass' = [NoPass EXCEPT !.raised = TRUE, !.after_raise = pass.raised]
    /\ pass' # pass
    /\ UNCHANGED <<now, jobs, runs, staging_path, files, running, tk, utc_offset, resolver_vars, manager_vars, exit_vars, restore_vars>>

\* ------------------------------- scheduler_loop, step by step, and the exit
\* the scheduler thread: where it is in scheduler_loop (while, try, sleep,
\* returned), the Event made by start_scheduler (line 67), and the steps the
\* loop has taken since the Event was set
NoScheduler == [pc |-> "while", stop_event |-> FALSE, since_set |-> 0]

\* the main thread: in the main loop, in the askyesno dialog of on_exit
\* (confirm), at the test of _shutdown_if_safe (check), waiting for
\* after(100, ...) (poll), past the test with the registry found empty
\* (safe), past stop_scheduler_event.set() (joining), past destroy()
NoApp == [pc |-> "mainloop"]

\* a loop condition that never reads the Event (a faulty variant)
while_true(stop_event) == TRUE

\* line 55: while not stop_event.is_set()
while_not_is_set(stop_event) == ~stop_event

\* the scheduler thread moves on to pc
scheduler_step(pc) ==
    [scheduler EXCEPT !.pc = pc,
                      !.since_set = IF scheduler.stop_event THEN @ + 1 ELSE @]

\* line 55: the loop condition is evaluated
scheduler_loop_while ==
    /\ scheduler.pc = "while"
    /\ scheduler' = scheduler_step(IF while_not_is_set(scheduler.stop_event)
                                   THEN "try" ELSE "returned")
    /\ UNCHANGED <<now, jobs, staging_path, files, running, runs, tk, pass, utc_offset,
                   resolver_vars, manager_vars, app, restore_vars>>

\* lines 56-59: the pass, which returns or raises
scheduler_loop_try ==
    /\ scheduler.pc = "try"
    /\ \/ \E t \in ClockReads, exists \in SUBSET DOMAIN jobs :
             check_and_run_jobs_returns(t, exists)
       \/ /\ pass' = [NoPass EXCEPT !.raised = TRUE, !.after_raise = pass.raised]
          /\ UNCHANGED <<now, jobs, runs>>
    /\ scheduler' = scheduler_step("sleep")
    /\ UNCHANGED <<staging_path, files, running, tk, utc_offset,
                   resolver_vars, manager_vars, app, restore_vars>>

\* line 60: time.sleep(60) returns
scheduler_loop_sleep ==
    /\ scheduler.pc = "sleep"
    /\ scheduler' = scheduler_step("while")
    /\ UNCHANGED <<now, jobs, staging_path, files, running, runs, tk, pass, utc_offset,
                   resolver_vars, manager_vars, app, restore_vars>>

\* Main_menu.py on_exit up to the dialog (lines 58-69) or, with no running
\* job, up to the call of _shutdown_if_safe (line 82)
on_exit ==
    /\ app.pc = "mainloop"
    /\ app' = [app EXCEPT !.pc = IF get_running_jobs(running) # {} THEN "confirm" ELSE "check"]
    /\ UNCHANGED <<now, jobs, staging_path, files, running, runs, tk, pass, utc_offset,
                   resolver_vars, manager_vars, scheduler, restore_vars>>

\* lines 70-79: the answer to "Do you want to stop them and exit?"
askyesno(yes) ==
    /\ app.pc = "confirm"
    /\ IF yes
       THEN /\ runs' = [r \in RunIds |->
                          IF r \in stop_all_jobs(running)
                          THEN [runs[r] EXCEPT !.stop_event = TRUE] ELSE runs[r]]
            /\ app' = [app EXCEPT !.pc = "check"]
       ELSE /\ app' = [app EXCEPT !.pc = "mainloop"]
            /\ UNCHANGED runs
    /\ UNCHANGED <<now, jobs, staging_path, files, running, tk, pass, utc_offset,
                   resolver_vars, manager_vars, scheduler, restore_vars>>

\* _shutdown_if_safe, lines 86-88: the registry is read
shutdown_if_safe ==
    /\ app.pc = "check"
    /\ app' = [app EXCEPT !.pc = IF get_running_jobs(running) # {} THEN "poll" ELSE "safe"]
    /\ UNCHANGED <<now, jobs, staging_path, files, running, runs, tk, pass, utc_offset,
                   resolver_vars, manager_vars, scheduler, restore_vars>>

\* the main loop calls _shutdown_if_safe again, 100 ms later
after_100 ==
    /\ app.pc = "poll"
    /\ app' = [app EXCEPT !.pc = "check"]
    /\ UNCHANGED <<now, jobs, staging_path, files, running, runs, tk, pass, utc_offset,
                   resolver_vars, manager_vars, scheduler, restore_vars>>

\* line 93: stop_scheduler_event.set()
stop_scheduler_event_set ==
    /\ app.pc = "safe"
    /\ scheduler' = [scheduler EXCEPT !.stop_event = TRUE]
    /\ app' = [app EXCEPT !.pc = "joining"]
    /\ UNCHANGED <<now, jobs, staging_path, files, running, runs, tk, pass, utc_offset,
                   resolver_vars, manager_vars, restore_vars>>

\* lines 94-96: join(timeout=2.0) returns, because the scheduler thread has
\* ended or because two seconds have passed, and the window is destroyed
join_and_destroy ==
    /\ app.pc = "joining"
    /\ app' = [app EXCEPT !.pc = "destroyed"]
    /\ UNCHANGED <<now, jobs, staging_path, files, running, runs, tk, pass, utc_offset,
                   resolver_vars, manager_vars, scheduler, restore_vars>>

\* ------------------------------ job_runner.py: run_restore_job_in_thread
\* the registry key of a restore: job_data has no 'id', so add_job makes one
\* with os.urandom; no row of the jobs table has this id
RestoreKey == 0

\* the threading.Event made by restore_ui.py for the restore thread
RestoreEvent == 0

\* grouped_files of one restore: per archive, whether its zip_path begins
\* with gdrive:// and how many arcnames are asked from it; the empty list
\* stands for job_data without files_to_restore
ArchiveLists ==
    UNION {[1..n -> [cloud : BOOLEAN, arcnames : 1..MaxEntries]] : n \in 0..MaxArchives}

\* the path of archive a: os.path.join(staging_path, file_id) once it is
\* downloaded, zip_path itself when it is local
staged_path(a) == <<"staging", a>>
local_path(a) == <<"local", a>>

\* the frame of run_restore_job_in_thread: its position, job_data, its Event,
\* its locals (job_id, restore_history_id, job_status_final, the archive and
\* the arcname its loops are at, local_zip_path), the exception on its way
\* through the inner finally, the checkpoint at which it saw the Event set,
\* the entries zf.extract has written, and the statuses given to update_status
NoRestore ==
    [pc |-> "unused", archives |-> <<>>, email |-> FALSE, stop_event |-> FALSE,
     job_id |-> None, restore_history_id |-> None, job_status_final |-> STATUS_FAILED,
     a |-> 0, arcname |-> 0, local_zip_path |-> NoPath, raising |-> "none",
     observed |-> "none", extracted |-> {}, statuses |-> <<>>]

\* checkpoints without the one before each entry (a faulty variant)
restore_checkpoints_without_entry == {"start", "archive", "downloaded"}

\* the places where the thread reads stop_event.is_set(): lines 366, 381, 399
\* and 405
restore_checkpoints == {"start", "archive", "downloaded", "entry"}

\* the thread reads the Event at checkpoint c and finds it set
cancelled_at(c) == c \in restore_checkpoints /\ restore.stop_event

\* update_status(message, status) of the restore: job_id is set
restore_update_status(f, status) == [f EXCEPT !.statuses = Append(@, status)]

\* an inner finally that removes whatever local_zip_path names (a faulty
\* variant)
archive_finally_removes_any(F, cloud, path) == F \ {path}

\* lines 413-416: the downloaded archive is removed, if there is one
archive_finally(F, cloud, path) ==
    IF cloud /\ path # NoPath /\ path \in F THEN F \ {path} ELSE F

\* lines 353-363: the record is registered as Pending; without files the
\* ValueError of line 360 is raised, else the history row is inserted
restore_entry ==
    /\ restore.pc = "start"
    /\ running' = update_job_status(add_job(running, RestoreKey, "restore", RestoreEvent),
                                    RestoreKey, STATUS_PENDING)
    /\ IF restore.archives = <<>>
       THEN /\ restore' = [restore_update_status(restore, STATUS_PENDING)
                              EXCEPT !.job_id = RestoreKey, !.pc = "error"]
            /\ UNCHANGED restore_history
       ELSE /\ restore' = [restore_update_status(restore, STATUS_PENDING)
                              EXCEPT !.job_id = RestoreKey, !.restore_history_id = 1,
                                     !.pc = "started"]
            /\ restore_history' = "Initializing"
    /\ UNCHANGED <<now, jobs, staging_path, files, runs, tk, pass, utc_offset,
                   resolver_vars, manager_vars, exit_vars, restore_files>>

\* lines 366-378: the checkpoint before the start, the grouping, and the
\* staging path
restore_checkpoint_start ==
    /\ restore.pc = "started"
    /\ restore' = IF cancelled_at("start")
                  THEN [restore EXCEPT !.observed = "start", !.pc = "interrupted"]
                  ELSE IF ~staging_path THEN [restore EXCEPT !.pc = "error"]
                  ELSE [restore EXCEPT !.a = 1, !.pc = "archive"]
    /\ UNCHANGED <<now, jobs, staging_path, files, running, runs, tk, pass, utc_offset,
                   resolver_vars, manager_vars, exit_vars, restore_files, restore_history>>

\* lines 380-386 and 396-397, and lines 418-419 when the loop is over: the
\* checkpoint before each archive, then Transferring for a download or the
\* archive's own path
restore_for_archive ==
    /\ restore.pc = "archive"
    /\ IF restore.a > Len(restore.archives)
       THEN /\ restore' = [restore_update_status(restore, STATUS_COMPLETED)
                              EXCEPT !.job_status_final = STATUS_COMPLETED, !.pc = "finally"]
            /\ running' = update_job_status(running, RestoreKey, STATUS_COMPLETED)
       ELSE IF cancelled_at("archive")
       THEN /\ restore' = [restore EXCEPT !.observed = "archive", !.pc = "interrupted"]
            /\ UNCHANGED running
       ELSE IF restore.archives[restore.a].cloud
       THEN /\ restore' = [restore_update_status(restore, STATUS_TRANSFERRING)
                              EXCEPT !.local_zip_path = NoPath, !.arcname = 0,
                                     !.pc = "download"]
            /\ running' = update_job_status(running, RestoreKey, STATUS_TRANSFERRING)
       ELSE /\ restore' = [restore EXCEPT !.local_zip_path = local_path(restore.a),
                                          !.arcname = 0, !.pc = "downloaded"]
            /\ UNCHANGED running
    /\ UNCHANGED <<now, jobs, staging_path, files, runs, tk, pass, utc_offset,
                   resolver_vars, manager_vars, exit_vars, restore_files, restore_history>>

\* lines 387-395: authenticate, then download_file, which may leave a file
\* in staging also when it fails
restore_download(authenticated, written, success) ==
    /\ restore.pc = "download"
    /\ success => authenticated /\ written
    /\ written => authenticated
    /\ restore' = IF ~authenticated
                  THEN [restore EXCEPT !.raising = "error", !.pc = "cleanup"]
                  ELSE IF ~success
                  THEN [restore EXCEPT !.local_zip_path = staged_path(restore.a),
                                       !.raising = "error", !.pc = "cleanup"]
                  ELSE [restore EXCEPT !.local_zip_path = staged_path(restore.a),
                                       !.pc = "downloaded"]
    /\ restore_files' = IF written THEN restore_files \cup {staged_path(restore.a)}
                        ELSE restore_files
    /\ UNCHANGED <<now, jobs, staging_path, files, running, runs, tk, pass, utc_offset,
                   resolver_vars, manager_vars, exit_vars, restore_history>>

\* lines 399-402: the checkpoint after the download, Packaging, and the
\* opening of the archive, which zipfile may refuse
restore_checkpoint_downloaded(opens) ==
    /\ restore.pc = "downloaded"
    /\ IF cancelled_at("downloaded")
       THEN /\ restore' = [restore EXCEPT !.observed = "downloaded",
                                          !.raising = "interrupted", !.pc = "cleanup"]
            /\ UNCHANGED running
       ELSE /\ restore' = IF opens
                          THEN [restore_update_status(restore, STATUS_PACKAGING)
                                   EXCEPT !.arcname = 1, !.pc = "entry"]
                          ELSE [restore_update_status(restore, STATUS_PACKAGING)
                                   EXCEPT !.raising = "error", !.pc = "cleanup"]
            /\ running' = update_job_status(running, RestoreKey, STATUS_PACKAGING)
    /\ UNCHANGED <<now, jobs, staging_path, files, runs, tk, pass, utc_offset,
                   resolver_vars, manager_vars, exit_vars, restore_files, restore_history>>

\* lines 404-411: the checkpoint before each entry, and zf.extract, which
\* raises for a name the archive does not hold
restore_extract(found) ==
    /\ restore.pc = "entry"
    /\ restore' = IF restore.arcname > restore.archives[restore.a].arcnames
                  THEN [restore EXCEPT !.pc = "cleanup"]
                  ELSE IF cancelled_at("entry")
                  THEN [restore EXCEPT !.observed = "entry", !.raising = "interrupted",
                                       !.pc = "cleanup"]
                  ELSE IF ~found
                  THEN [restore EXCEPT !.raising = "error", !.pc = "cleanup"]
                  ELSE [restore EXCEPT !.extracted = @ \cup {<<restore.a, restore.arcname>>},
                                       !.arcname = @ + 1]
    /\ UNCHANGED <<now, jobs, staging_path, files, running, runs, tk, pass, utc_offset,
                   resolver_vars, manager_vars, exit_vars, restore_files, restore_history>>

\* lines 413-416: the inner finally, and where the thread goes from it
restore_archive_finally ==
    /\ restore.pc = "cleanup"
    /\ restore_files' = archive_finally(restore_files, restore.archives[restore.a].cloud,
                                        restore.local_zip_path)
    /\ restore' = IF restore.raising = "none"
                  THEN [restore EXCEPT !.a = @ + 1, !.pc = "archive"]
                  ELSE [restore EXCEPT !.pc = restore.raising]
    /\ UNCHANGED <<now, jobs, staging_path, files, running, runs, tk, pass, utc_offset,
                   resolver_vars, manager_vars, exit_vars, restore_history>>

\* lines 421-424: except InterruptedError
restore_except_interrupted ==
    /\ restore.pc = "interrupted"
    /\ restore' = [restore_update_status(restore, STATUS_FAILED)
                      EXCEPT !.job_status_final = STATUS_FAILED, !.pc = "finally"]
    /\ running' = update_job_status(running, RestoreKey, STATUS_FAILED)
    /\ UNCHANGED <<now, jobs, staging_path, files, runs, tk, pass, utc_offset,
                   resolver_vars, manager_vars, exit_vars, restore_files, restore_history>>

\* lines 425-428: except Exception
restore_except_exception ==
    /\ restore.pc = "error"
    /\ restore' = [restore_update_status(restore, STATUS_FAILED)
                      EXCEPT !.job_status_final = STATUS_FAILED, !.pc = "finally"]
    /\ running' = update_job_status(running, RestoreKey, STATUS_FAILED)
    /\ UNCHANGED <<now, jobs, staging_path, files, runs, tk, pass, utc_offset,
                   resolver_vars, manager_vars, exit_vars, restore_files, restore_history>>

\* lines 429-435: the history row gets the outcome, the record is removed
restore_finally ==
    /\ restore.pc = "finally"
    /\ restore_history' = IF restore.restore_history_id # None
                          THEN restore.job_status_final ELSE restore_history
    /\ running' = remove_job(running, restore.job_id)
    /\ restore' = [restore EXCEPT !.pc = IF restore.email THEN "notify" ELSE "done"]
    /\ UNCHANGED <<now, jobs, staging_path, files, runs, tk, pass, utc_offset,
                   resolver_vars, manager_vars, exit_vars, restore_files>>

\* lines 443-448: the email and the two status updates around it
restore_notify ==
    /\ restore.pc = "notify"
    /\ running' = update_job_status(
                      update_job_status(running, RestoreKey, STATUS_NOTIFYING_SENDER),
                      RestoreKey, STATUS_COMPLETED)
    /\ restore' = [restore_update_status(
                       restore_update_status(restore, STATUS_NOTIFYING_SENDER),
                       STATUS_COMPLETED)
                      EXCEPT !.pc = "done"]
    /\ UNCHANGED <<now, jobs, staging_path, files, runs, tk, pass, utc_offset,
                   resolver_vars, manager_vars, exit_vars, restore_files, restore_history>>

\* the Stop button on the restore's row, or Stop All Jobs: the Event of the
\* registered record is set
stop_restore_clicked ==
    /\ RestoreEvent \in stop_job(running, RestoreKey)
    /\ ~restore.stop_event
    /\ restore' = [restore EXCEPT !.stop_event = TRUE]
    /\ UNCHANGED <<now, jobs, staging_path, files, running, runs, tk, pass, utc_offset,
                   resolver_vars, manager_vars, exit_vars, restore_files, restore_history>>

\* ------------------------------------------------------- the whole system
\* the archives an output root holds when the program starts: none, or the
\* archive of an earlier session under the first job's desired name
InitialArchives == {{}, {<<1, 0>>}}

Init ==
    /\ now = 0
    /\ jobs = [k \in {} |-> None]
    /\ staging_path \in BOOLEAN
    /\ files \in InitialArchives
    /\ running = [k \in {} |-> None]
    /\ runs = [r \in 1..MaxRuns |-> NoRun]
    /\ tk = <<>>
    /\ pass = NoPass
    /\ utc_offset \in UtcOffsets
    /\ disk = {}
    /\ resolved = NoCall
    /\ listeners = <<>>
    /\ root = TRUE
    /\ lock = None
    /\ callers = [t \in {} |-> NoCaller]
    /\ events = 0
    /\ held = NoSnapshot
    /\ api = NoApi
    /\ scheduler = NoScheduler
    /\ app = NoApp
    /\ restore = NoRestore
    /\ restore_files = {}
    /\ restore_history = NoStatus

Next ==
    \/ \E schedule \in Schedules, h \in ScheduleHours, m \in ScheduleMinutes,
          provider \in Providers, send_email \in BOOLEAN :
            save_job(schedule, h, m, provider, send_email)
    \/ \E j \in JobIds : run_job_async_target(j)
    \/ \E j \in JobIds, c \in {RENAME, CANCEL}, cb \in BOOLEAN :
            call_run_job_in_thread(j, c, cb)
    \/ \E j \in JobIds : stop_job_clicked(j)
    \/ check_and_run_jobs
    \/ tk_mainloop
    \/ \E r \in RunIds :
        \/ run_job_in_thread_entry(r)
        \/ run_job_in_thread_initialize(r)
        \/ run_job_in_thread_checkpoint(r)
        \/ run_job_in_thread_packaging(r)
        \/ run_job_in_thread_branch(r)
        \/ run_job_in_thread_upload(r)
        \/ run_job_in_thread_final(r)
        \/ run_job_in_thread_except_interrupted(r)
        \/ run_job_in_thread_except_exception(r)
        \/ run_job_in_thread_finally(r)
        \/ run_job_in_thread_notify(r)
        \/ run_job_in_thread_notified(r)
        \/ run_job_in_thread_exit(r)

Spec == Init /\ [][Next]_vars

\* ------------------------------------ the registry under concurrent runs
\* RegistryJobs Manual jobs with a local destination are in the table, the
\* first with an email request; "run now" can be clicked RegistryRuns times,
\* on any of them
InitRegistry ==
    /\ now = 0
    /\ jobs = [j \in 1..RegistryJobs |->
                  new_row("Manual", 2, 30, 0, 2, "local", j = 1, None)]
    /\ staging_path = TRUE
    /\ files = {}
    /\ running = [k \in {} |-> None]
    /\ runs = [r \in 1..RegistryRuns |-> NoRun]
    /\ tk = <<>>
    /\ pass = NoPass
    /\ utc_offset \in UtcOffsets
    /\ disk = {}
    /\ resolved = NoCall
    /\ listeners = <<>>
    /\ root = TRUE
    /\ lock = None
    /\ callers = [t \in {} |-> NoCaller]
    /\ events = 0
    /\ held = NoSnapshot
    /\ api = NoApi
    /\ scheduler = NoScheduler
    /\ app = NoApp
    /\ restore = NoRestore
    /\ restore_files = {}
    /\ restore_history = NoStatus

NextRegistry ==
    \/ \E j \in DOMAIN jobs : run_job_async_target(j)
    \/ \E j \in DOMAIN jobs : stop_job_clicked(j)
    \/ stop_all_jobs_clicked
    \/ tk_mainloop
    \/ \E r \in RunIds :
        \/ run_job_in_thread_entry(r)
        \/ run_job_in_thread_initialize(r)
        \/ run_job_in_thread_checkpoint(r)
        \/ run_job_in_thread_packaging(r)
        \/ run_job_in_thread_branch(r)
        \/ run_job_in_thread_final(r)
        \/ run_job_in_thread_except_interrupted(r)
        \/ run_job_in_thread_except_exception(r)
        \/ run_job_in_thread_finally(r)
        \/ run_job_in_thread_notify(r)
        \/ run_job_in_thread_notified(r)
        \/ run_job_in_thread_exit(r)

RegistrySpec == InitRegistry /\ [][NextRegistry]_vars

\* ------------------------------------------ the scheduler pass on any rows
\* the texts a pass can find in the status and next_run_at columns: a NULL
\* status, Idle in three spellings, two other statuses; a NULL next_run_at
\* and two instants
StatusTexts == {NoStatus, STATUS_IDLE, "idle", "IDLE", STATUS_PENDING, STATUS_COMPLETED}
NextRunTexts == {None, HM(2, 0), HM(23, 30)}

DueRows ==
    {[new_row("Hourly", 2, 30, 0, 2, "local", FALSE, n) EXCEPT !.status = s] :
        s \in StatusTexts, n \in NextRunTexts}

InitScheduler ==
    /\ now = 0
    /\ jobs \in [1..SchedulerJobs -> DueRows]
    /\ staging_path = TRUE
    /\ files = {}
    /\ running = [k \in {} |-> None]
    /\ runs = [r \in 1..SchedulerJobs |-> NoRun]
    /\ tk = <<>>
    /\ pass = NoPass
    /\ utc_offset \in UtcOffsets
    /\ disk = {}
    /\ resolved = NoCall
    /\ listeners = <<>>
    /\ root = TRUE
    /\ lock = None
    /\ callers = [t \in {} |-> NoCaller]
    /\ events = 0
    /\ held = NoSnapshot
    /\ api = NoApi
    /\ scheduler = NoScheduler
    /\ app = NoApp
    /\ restore = NoRestore
    /\ restore_files = {}
    /\ restore_history = NoStatus

NextScheduler ==
    \/ check_and_run_jobs
    \/ check_and_run_jobs_raises

SchedulerSpec == InitScheduler /\ [][NextScheduler]_vars

\* ------------------------- the specification of resolve_save_conflict alone
InitResolver ==
    /\ now = 0
    /\ jobs = [k \in {} |-> None]
    /\ staging_path = TRUE
    /\ files = {}
    /\ running = [k \in {} |-> None]
    /\ runs = [r \in {} |-> NoRun]
    /\ tk = <<>>
    /\ pass = NoPass
    /\ utc_offset = 0
    /\ disk \in {D \in SUBSET InitialPaths : Cardinality(D) <= MaxPaths}
    /\ resolved = NoCall
    /\ listeners = <<>>
    /\ root = TRUE
    /\ lock = None
    /\ callers = [t \in {} |-> NoCaller]
    /\ events = 0
    /\ held = NoSnapshot
    /\ api = NoApi
    /\ scheduler = NoScheduler
    /\ app = NoApp
    /\ restore = NoRestore
    /\ restore_files = {}
    /\ restore_history = NoStatus

NextResolver ==
    \/ \E zip_dest \in DesiredPaths, on_conflict_action \in Policies, response \in Responses :
            call_resolve_save_conflict(zip_dest, on_conflict_action, response)
    \/ zip_path_write

ResolverSpec == InitResolver /\ [][NextResolver]_vars

\* ------------------------------------ the specification of job_manager alone
\* _root is set once by Main_menu.py:175, or never (no window)
InitManager ==
    /\ now = 0
    /\ jobs = [k \in {} |-> None]
    /\ staging_path = TRUE
    /\ files = {}
    /\ running = [k \in {} |-> None]
    /\ runs = [r \in {} |-> NoRun]
    /\ tk = <<>>
    /\ pass = NoPass
    /\ utc_offset = 0
    /\ disk = {}
    /\ resolved = NoCall
    /\ listeners = <<>>
    /\ root \in BOOLEAN
    /\ lock = None
    /\ callers = [t \in 1..ManagerCallers |-> NoCaller]
    /\ events = 0
    /\ held = NoSnapshot
    /\ api = NoApi
    /\ scheduler = NoScheduler
    /\ app = NoApp
    /\ restore = NoRestore
    /\ restore_files = {}
    /\ restore_history = NoStatus

NextManager ==
    \/ \E t \in DOMAIN callers, op \in {"add_job", "update_job_status", "remove_job"},
          job_id \in ManagerKeys, status \in ManagerStatuses :
            manager_call(t, op, job_id, status)
    \/ \E t \in DOMAIN callers :
        \/ with_enter(t)
        \/ with_body(t)
        \/ notify_listeners(t)
    \/ tk_listener
    \/ \E listener \in Listeners :
        \/ call_add_listener(listener)
        \/ call_remove_listener(listener)
    \/ call_get_running_jobs

ManagerSpec == InitManager /\ [][NextManager]_vars

\* ---------------------- the exit of the application and the scheduler loop
\* ExitJobs Manual jobs with a local destination are in the table; "run now"
\* can be clicked ExitRuns times while the main loop runs; the runs are
\* followed until the window is destroyed, the scheduler thread for as long
\* as its loop runs
InitExit ==
    /\ now = 0
    /\ jobs = [j \in 1..ExitJobs |->
                  new_row("Manual", 2, 30, 0, 2, "local", FALSE, None)]
    /\ staging_path = TRUE
    /\ files = {}
    /\ running = [k \in {} |-> None]
    /\ runs = [r \in 1..ExitRuns |-> NoRun]
    /\ tk = <<>>
    /\ pass = NoPass
    /\ utc_offset \in UtcOffsets
    /\ disk = {}
    /\ resolved = NoCall
    /\ listeners = <<>>
    /\ root = TRUE
    /\ lock = None
    /\ callers = [t \in {} |-> NoCaller]
    /\ events = 0
    /\ held = NoSnapshot
    /\ api = NoApi
    /\ scheduler = NoScheduler
    /\ app = NoApp
    /\ restore = NoRestore
    /\ restore_files = {}
    /\ restore_history = NoStatus

NextExit ==
    \/ scheduler_loop_while
    \/ scheduler_loop_try
    \/ scheduler_loop_sleep
    \/ on_exit
    \/ \E yes \in BOOLEAN : askyesno(yes)
    \/ shutdown_if_safe
    \/ after_100
    \/ stop_scheduler_event_set
    \/ join_and_destroy
    \/ app.pc \in {"mainloop", "poll"} /\ \E j \in DOMAIN jobs : run_job_async_target(j)
    \/ app.pc \in {"mainloop", "confirm", "poll"} /\ tk_mainloop
    \/ /\ app.pc # "destroyed"
       /\ \E r \in RunIds :
            \/ run_job_in_thread_entry(r)
            \/ run_job_in_thread_initialize(r)
            \/ run_job_in_thread_checkpoint(r)
            \/ run_job_in_thread_packaging(r)
            \/ run_job_in_thread_branch(r)
            \/ run_job_in_thread_final(r)
            \/ run_job_in_thread_except_interrupted(r)
            \/ run_job_in_thread_except_exception(r)
            \/ run_job_in_thread_finally(r)
            \/ run_job_in_thread_exit(r)

ExitSpec == InitExit /\ [][NextExit]_vars

\* ----------------------------------------------------- one restore run
\* the restore thread has been started by restore_ui.py with any list of
\* archives, with or without an email address; the local archives are on
\* disk, staging holds no download
InitRestore ==
    /\ now = 0
    /\ jobs = [k \in {} |-> None]
    /\ staging_path \in BOOLEAN
    /\ files = {}
    /\ running = [k \in {} |-> None]
    /\ runs = [r \in {} |-> NoRun]
    /\ tk = <<>>
    /\ pass = NoPass
    /\ utc_offset = 0
    /\ disk = {}
    /\ resolved = NoCall
    /\ listeners = <<>>
    /\ root = TRUE
    /\ lock = None
    /\ callers = [t \in {} |-> NoCaller]
    /\ events = 0
    /\ held = NoSnapshot
    /\ api = NoApi
    /\ scheduler = NoScheduler
    /\ app = NoApp
    /\ \E archives \in ArchiveLists, email \in BOOLEAN :
          /\ restore = [NoRestore EXCEPT !.pc = "start", !.archives = archives,
                                         !.email = email]
          /\ restore_files = {local_path(a) : a \in {n \in DOMAIN archives :
                                                       ~archives[n].cloud}}
    /\ restore_history = NoStatus

NextRestore ==
    \/ restore_entry
    \/ restore_checkpoint_start
    \/ restore_for_archive
    \/ \E authenticated, written, success \in BOOLEAN :
          restore_download(authenticated, written, success)
    \/ \E opens \in BOOLEAN : restore_checkpoint_downloaded(opens)
    \/ \E found \in BOOLEAN : restore_extract(found)
    \/ restore_archive_finally
    \/ restore_except_interrupted
    \/ restore_except_exception
    \/ restore_finally
    \/ restore_notify
    \/ stop_restore_clicked

RestoreSpec == InitRestore /\ [][NextRestore]_vars

\* ------------------------------------------------------------- properties
\* s is an initial segment of t
IsPrefix(s, t) == Len(s) <= Len(t) /\ SubSeq(t, 1, Len(s)) = s

Range(s) == {s[i] : i \in DOMAIN s}

\* the positions of run_job_in_thread after its try block
AfterTry == {"finally", "notify", "sending", "exit", "done"}

\* the two reports of the notification step, made after the record is removed
EmailTail == <<STATUS_NOTIFYING_SENDER, STATUS_COMPLETED>>

\* r is the only run there has been of its job
Alone(r) == \A q \in RunIds \ {r} : runs[q].job_id # runs[r].job_id

\* writes to the row of job j that are still queued on the Tk main loop
QueuedWrites(j) ==
    {i \in DOMAIN tk : tk[i].call = "update_job_status" /\ tk[i].job_id = j}

\* run r has returned and every write it made to the jobs table has landed
Settled(r) == runs[r].pc = "done" /\ QueuedWrites(runs[r].job_id) = {}

\* how often the refresh callback of run r was called, directly or through
\* root_widget.after(0, refresh_callback)
Invocations(r) ==
    runs[r].refreshed
    + Cardinality({i \in DOMAIN tk : tk[i].call = "refresh_callback" /\ tk[i].run = r})

LocalOrder ==
    <<STATUS_PENDING, STATUS_PACKAGING, STATUS_AWAITING_TRANSFER, STATUS_COMPLETED>>

CloudOrder ==
    <<STATUS_PENDING, STATUS_PACKAGING, STATUS_AWAITING_TRANSFER, STATUS_TRANSFERRING,
      STATUS_VERIFYING>>

\* C1: a run to a local destination whose packaging succeeded reports to the
\* registry, while its record is there, exactly Pending, Packaging, Awaiting
\* Transfer, Completed in that order; its record then shows Completed, and the
\* only later reports are those of the notification step
C1_LocalStatusOrder ==
    \A r \in RunIds :
        (/\ runs[r].dest_provider \notin connectors
         /\ runs[r].dest # None
         /\ runs[r].pc \in {"final"} \cup AfterTry)
        => /\ IsPrefix(LocalOrder, runs[r].statuses)
           /\ IsPrefix(runs[r].statuses, LocalOrder \o EmailTail)
           /\ runs[r].pc \in {"final", "finally"} => runs[r].statuses = LocalOrder
           /\ (runs[r].pc \in {"final", "finally"} /\ Alone(r))
                => running[runs[r].job_id].status = STATUS_COMPLETED
           /\ runs[r].job_status_final = STATUS_COMPLETED

\* a local run with an email request has returned after a full status history
C1_Witness ==
    \E r \in RunIds :
        /\ runs[r].pc = "done"
        /\ runs[r].dest_provider = "local"
        /\ ~runs[r].stop_event
        /\ runs[r].statuses = LocalOrder \o EmailTail

\* C2: a run to a cloud provider whose packaging and upload both succeeded
\* reports Pending, Packaging, Awaiting Transfer, Transferring, Verifying in
\* that order, ends with the outcome Completed, and has deleted its staged
\* archive
C2_CloudStatusOrder ==
    \A r \in RunIds :
        (/\ runs[r].dest_provider \in connectors
         /\ runs[r].remote_uri # None
         /\ runs[r].pc \in {"final"} \cup AfterTry)
        => /\ IsPrefix(CloudOrder, runs[r].statuses)
           /\ IsPrefix(runs[r].statuses, CloudOrder \o EmailTail)
           /\ runs[r].pc \in {"final", "finally"} => runs[r].statuses = CloudOrder
           /\ runs[r].job_status_final = STATUS_COMPLETED
           /\ Alone(r) => <<runs[r].job_id, runs[r].dest>> \notin files

\* a cloud run has uploaded, deleted its staged archive and returned
C2_Witness ==
    \E r \in RunIds :
        /\ runs[r].pc = "done"
        /\ runs[r].dest_provider = "gdrive"
        /\ runs[r].remote_uri # None
        /\ runs[r].statuses = CloudOrder
        /\ runs[r].job_status_final = STATUS_COMPLETED
        /\ <<runs[r].job_id, runs[r].dest>> \notin files

\* the number of threads a pass started for job j
Started(j) == Cardinality({i \in DOMAIN pass.started : pass.started[i] = j})

\* C3: in a pass, every job that is due and whose source path exists gets
\* exactly one executor run
C3_OneRunPerDueJob ==
    \A j \in pass.handed \cap pass.exists : Started(j) = 1

\* C5: a run that finds its stop signal set at the checkpoint before packaging
\* never reports Packaging; it ends Failed in the registry, and its row ends
\* Idle with the last outcome Failed and is never Completed
C5_CancelledBeforePackaging ==
    \A r \in RunIds :
        runs[r].exception = "Job was cancelled before start."
        => /\ STATUS_PACKAGING \notin Range(runs[r].statuses)
           /\ runs[r].dest = None
           /\ runs[r].pc \in AfterTry
                => /\ IsPrefix(<<STATUS_PENDING, STATUS_FAILED>>, runs[r].statuses)
                   /\ runs[r].job_status_final = STATUS_FAILED
           /\ (runs[r].pc = "finally" /\ Alone(r))
                => running[runs[r].job_id].status = STATUS_FAILED
           /\ Alone(r)
                => /\ jobs[runs[r].job_id].status # STATUS_COMPLETED
                   /\ jobs[runs[r].job_id].last_run_status # STATUS_COMPLETED
           /\ (Settled(r) /\ Alone(r))
                => /\ jobs[runs[r].job_id].status = STATUS_IDLE
                   /\ jobs[runs[r].job_id].last_run_status = STATUS_FAILED

\* a run cancelled at the checkpoint has returned and its writes have landed
C5_Witness ==
    \E r \in RunIds :
        /\ Settled(r)
        /\ runs[r].stop_event
        /\ runs[r].exception = "Job was cancelled before start."
        /\ runs[r].root_widget
        /\ jobs[runs[r].job_id].last_run_status = STATUS_FAILED

\* C6: when run_job_in_thread has returned, the registry holds no record of
\* that run, and the refresh callback, if one was given, has been called
\* exactly once (and not at all before the return)
C6_RecordRemovedCallbackOnce ==
    \A r \in RunIds :
        /\ runs[r].pc = "done"
            => /\ \A k \in DOMAIN running : running[k].stop_event # r
               /\ Invocations(r) = IF runs[r].refresh_callback THEN 1 ELSE 0
        /\ runs[r].pc # "done" => Invocations(r) = 0

\* a failed run with a refresh callback has returned
C6_Witness ==
    \E r \in RunIds :
        /\ runs[r].pc = "done"
        /\ runs[r].refresh_callback
        /\ runs[r].job_status_final = STATUS_FAILED
        /\ runs[r].refreshed = 1
        /\ running = <<>>

\* C7: once a run has ended, the status of its row is Idle, except that a
\* successful run of a Once job leaves Completed; it is never Pending, and
\* every failed run leaves Idle
C7_PersistedStatusAfterRun ==
    \A r \in RunIds :
        (Settled(r) /\ Alone(r))
        => /\ jobs[runs[r].job_id].status =
                IF runs[r].job_status_final = STATUS_COMPLETED /\ runs[r].schedule = "Once"
                THEN STATUS_COMPLETED ELSE STATUS_IDLE
           /\ jobs[runs[r].job_id].status # STATUS_PENDING
           /\ runs[r].job_status_final = STATUS_FAILED
                => jobs[runs[r].job_id].status = STATUS_IDLE

\* a Once job whose upload failed is back at Idle
C7_Witness ==
    \E r \in RunIds :
        /\ Settled(r)
        /\ runs[r].schedule = "Once"
        /\ runs[r].exception = "Upload failed."
        /\ jobs[runs[r].job_id].status = STATUS_IDLE
        /\ jobs[runs[r].job_id].last_run_status = STATUS_FAILED

\* job j has the schedule Once and its only run has ended in success
OnceCompleted(j) ==
    \E r \in RunIds :
        /\ runs[r].job_id = j
        /\ Settled(r)
        /\ Alone(r)
        /\ runs[r].schedule = "Once"
        /\ runs[r].job_status_final = STATUS_COMPLETED

\* C8: after a Once job has completed successfully its row has the status
\* Completed, the row is due at no instant, and no later scheduler pass hands
\* it to run_job
C8_OnceNeverRestarted ==
    [][\A j \in JobIds :
          /\ OnceCompleted(j)'
                => /\ jobs'[j].status = STATUS_COMPLETED
                   /\ \A t \in Instants : ~is_due(jobs'[j], t)
          /\ (OnceCompleted(j) /\ pass' # pass) => j \notin pass'.handed]_vars

\* a pass has read the row of a successful Once job after its run has ended
\* and has not handed it on
C8_Witness ==
    \E j \in DOMAIN jobs :
        /\ OnceCompleted(j)
        /\ j \in DOMAIN pass.rows
        /\ pass.rows[j].status = STATUS_COMPLETED
        /\ jobs[j].status = STATUS_COMPLETED
        /\ j \notin pass.handed

\* C9: a Daily job with the time h:m whose run started at t and succeeded has
\* a row with the status Idle and the next-run time h:m of the day after t
C9_DailyNextRun ==
    \A r \in RunIds :
        (/\ Settled(r)
         /\ Alone(r)
         /\ runs[r].schedule = "Daily"
         /\ runs[r].job_status_final = STATUS_COMPLETED)
        => /\ jobs[runs[r].job_id].status = STATUS_IDLE
           /\ jobs[runs[r].job_id].last_run_at = runs[r].last_run_time
           /\ jobs[runs[r].job_id].next_run_at =
                (runs[r].last_run_time \div 1440 + 1) * 1440
                + 60 * runs[r].schedule_hour + runs[r].schedule_minute

\* a Daily 02:30 job ran at 23:30 of day 0: its next run is 02:30 of day 1
C9_Witness ==
    \E r \in RunIds :
        /\ Settled(r)
        /\ runs[r].schedule = "Daily"
        /\ runs[r].job_status_final = STATUS_COMPLETED
        /\ runs[r].last_run_time = HM(23, 30)
        /\ jobs[runs[r].job_id].next_run_at = MinutesPerDay + HM(2, 30)

\* C10: a Manual job has no next-run time, neither after its creation nor
\* after any run, and no scheduler pass hands it to run_job or starts it
C10_ManualNeverScheduled ==
    \A j \in DOMAIN jobs :
        jobs[j].schedule = "Manual"
        => /\ jobs[j].next_run_at = None
           /\ \A i \in QueuedWrites(j) : tk[i].next_run_at = None
           /\ j \notin pass.handed
           /\ \A r \in RunIds : runs[r].job_id = j => runs[r].started_by # "scheduler"

\* a Manual job has run with success, and a pass has read its row after
\* that run began
C10_Witness ==
    \E r \in RunIds :
        /\ Settled(r)
        /\ runs[r].schedule = "Manual"
        /\ runs[r].job_status_final = STATUS_COMPLETED
        /\ jobs[runs[r].job_id].last_run_status = STATUS_COMPLETED
        /\ jobs[runs[r].job_id].next_run_at = None
        /\ pass.at # None
        /\ pass.at > runs[r].last_run_time
        /\ runs[r].job_id \in DOMAIN pass.rows
        /\ runs[r].job_id \notin pass.handed

\* run r has registered its record and has not yet reached its remove_job
Registered(r) ==
    runs[r].pc \in {"entered", "checkpoint", "packing", "packaged", "uploading", "final",
                    "interrupted", "error", "finally"}

\* r and q are runs of two different jobs, each the only run of its job, and
\* both are between their add_job and their remove_job
TwoJobsRunning(r, q) ==
    /\ r # q
    /\ runs[r].job_id # runs[q].job_id
    /\ Alone(r) /\ Alone(q)
    /\ Registered(r) /\ Registered(q)

\* C11: while runs of two different jobs are both executing, get_running_jobs
\* holds both records, each under its own job id with its own stop event; a
\* stop_job sets the event of the record under the given id and no other
C11_ConcurrentRunsListed ==
    [][/\ \A r, q \in RunIds :
            TwoJobsRunning(r, q)'
            => /\ {runs'[r].job_id, runs'[q].job_id} \subseteq DOMAIN running'
               /\ running'[runs'[r].job_id].stop_event = r
               /\ running'[runs'[q].job_id].stop_event = q
               /\ Cardinality(get_running_jobs(running')) >= 2
       /\ (\E j \in DOMAIN jobs : stop_job_clicked(j))
            => Cardinality({r \in RunIds : runs'[r].stop_event # runs[r].stop_event}) <= 1
       /\ \A r \in RunIds :
            (runs'[r].stop_event /\ ~runs[r].stop_event)
            => /\ runs[r].job_id \in DOMAIN running
               /\ running[runs[r].job_id].stop_event = r]_vars

\* two "run now" runs of different jobs are both registered; one has been
\* stopped, the other's signal is unset
C11_Witness ==
    \E r, q \in RunIds :
        /\ TwoJobsRunning(r, q)
        /\ runs[r].started_by = "ui" /\ runs[q].started_by = "ui"
        /\ runs[r].stop_event
        /\ ~runs[q].stop_event
        /\ Cardinality(get_running_jobs(running)) = 2

\* C12: every run that has registered and not yet removed its record is in
\* the registry, whatever other runs have registered meanwhile
C12_EveryInFlightRunListed ==
    \A r \in RunIds :
        Registered(r) => \E k \in DOMAIN running : running[k].stop_event = r

\* ids that are not in the registry: never registered, or removed
UnknownIds == (0..(Cardinality(DOMAIN jobs) + 1)) \ DOMAIN running

\* C13: remove_job, update_job_status and stop_job applied to an id that is
\* not in the registry leave the registry as it is and set no stop event; so
\* do the calls an executor makes after its record is gone
C13_UnknownIdNoOp ==
    [][/\ \A id \in UnknownIds' :
            /\ remove_job(running', id) = running'
            /\ \A status \in {STATUS_PENDING, STATUS_FAILED, STATUS_COMPLETED} :
                    update_job_status(running', id, status) = running'
            /\ stop_job(running', id) = {}
       /\ \A r \in RunIds :
            (/\ runs[r].pc \in {"finally", "notify", "sending"}
             /\ runs'[r].pc # runs[r].pc
             /\ runs[r].job_id \notin DOMAIN running)
            => /\ running' = running
               /\ \A q \in RunIds : runs'[q].stop_event = runs[q].stop_event]_vars

\* two runs of one job have both passed remove_job, the second on an id that
\* was already removed, and one has reported its email statuses since
C13_Witness ==
    \E r, q \in RunIds :
        /\ r # q
        /\ runs[r].job_id = runs[q].job_id
        /\ runs[r].pc = "done" /\ runs[q].pc = "done"
        /\ runs[r].email # "none"
        /\ running = <<>>

Last(s) == s[Len(s)]

\* the positions of a run that has a phase still to begin: Packaging for any
\* run, Transferring or Verifying for a run to a cloud provider
PhaseAhead(r) ==
    \/ runs[r].pc = "checkpoint"
    \/ /\ runs[r].dest_provider \in connectors
       /\ runs[r].pc \in {"packing", "packaged", "uploading"}

\* C14: a run whose stop event is set while a phase is still to begin does not
\* begin that phase (it reports none of Packaging, Transferring, Verifying
\* from then on) and does not end Completed
C14_NoPhaseAfterCancel ==
    [][\A r \in RunIds :
          (runs[r].stop_event /\ PhaseAhead(r))
          => /\ Len(runs'[r].statuses) > Len(runs[r].statuses)
                  => Last(runs'[r].statuses) \notin
                        {STATUS_PACKAGING, STATUS_TRANSFERRING, STATUS_VERIFYING}
             /\ runs'[r].job_status_final # STATUS_COMPLETED]_vars

\* C15: a run whose upload returned no remote identifier ends Failed, has
\* announced Transferring once only and never returns to the upload, and its
\* staged archive is still on disk
C15_UploadWithoutIdFails ==
    \A r \in RunIds :
        runs[r].exception = "Upload failed."
        => /\ runs[r].pc \in {"error"} \cup AfterTry
           /\ runs[r].remote_uri = None
           /\ Alone(r) => <<runs[r].job_id, runs[r].dest>> \in files
           /\ Cardinality({i \in DOMAIN runs[r].statuses :
                               runs[r].statuses[i] = STATUS_TRANSFERRING}) = 1
           /\ runs[r].pc \in AfterTry
                => /\ runs[r].job_status_final = STATUS_FAILED
                   /\ IsPrefix(<<STATUS_PENDING, STATUS_PACKAGING, STATUS_AWAITING_TRANSFER,
                                 STATUS_TRANSFERRING, STATUS_FAILED>>, runs[r].statuses)

\* a run whose upload returned no id has returned; its archive is on disk
C15_Witness ==
    \E r \in RunIds :
        /\ runs[r].pc = "done"
        /\ runs[r].exception = "Upload failed."
        /\ runs[r].job_status_final = STATUS_FAILED
        /\ <<runs[r].job_id, runs[r].dest>> \in files

\* C16: the notification step changes neither the outcome of the run nor the
\* jobs table, whether the send works or not; a run that finished Completed and
\* whose send failed still has the outcome Completed, a last report Completed,
\* and a row with the last outcome Completed
C16_NotificationFailureHarmless ==
    [][\A r \in RunIds :
          /\ (runs[r].pc = "sending" /\ runs'[r].pc = "exit")
                => /\ runs'[r].job_status_final = runs[r].job_status_final
                   /\ jobs' = jobs
                   /\ tk' = tk
          /\ (/\ runs'[r].email = "failed"
              /\ runs'[r].exception = "none"
              /\ runs'[r].pc \in {"exit", "done"})
                => /\ runs'[r].job_status_final = STATUS_COMPLETED
                   /\ Last(runs'[r].statuses) = STATUS_COMPLETED
                   /\ (Settled(r)' /\ Alone(r)')
                        => /\ jobs'[runs'[r].job_id].last_run_status = STATUS_COMPLETED
                           /\ jobs'[runs'[r].job_id].status # STATUS_FAILED]_vars

\* a successful run whose notification could not be sent has returned, and its
\* row shows the last outcome Completed
C16_Witness ==
    \E r \in RunIds :
        /\ Settled(r)
        /\ runs[r].email = "failed"
        /\ runs[r].job_status_final = STATUS_COMPLETED
        /\ jobs[runs[r].job_id].last_run_status = STATUS_COMPLETED

\* the positions of run_job_in_thread between its two writes to the jobs table
BetweenWrites ==
    {"checkpoint", "packing", "packaged", "uploading", "final", "interrupted", "error"}

\* C17: a backup run writes the status of its row exactly twice: Pending with
\* no last-run timestamp at entry, and the final status, with the start time,
\* at the end; the steps in between leave the jobs table alone
C17_TwoWritesPerRun ==
    [][\A r \in RunIds :
          /\ runs'[r].pc \in {"unused", "start", "entered"} => runs'[r].db_writes = <<>>
          /\ runs'[r].pc \in BetweenWrites
                => runs'[r].db_writes =
                      <<[status |-> STATUS_PENDING, last_run_at |-> None]>>
          /\ runs'[r].pc \in AfterTry
                => /\ Len(runs'[r].db_writes) = 2
                   /\ runs'[r].db_writes[1] =
                          [status |-> STATUS_PENDING, last_run_at |-> None]
                   /\ runs'[r].db_writes[2] =
                          [status |-> IF /\ runs'[r].job_status_final = STATUS_COMPLETED
                                         /\ runs'[r].schedule = "Once"
                                      THEN STATUS_COMPLETED ELSE STATUS_IDLE,
                           last_run_at |-> runs'[r].last_run_time]
          /\ (runs'[r].pc # runs[r].pc
              /\ runs[r].pc \in {"start", "checkpoint", "packing", "packaged", "uploading"}
              /\ runs'[r].pc \in BetweenWrites)
                => jobs' = jobs /\ tk' = tk]_vars

\* a cloud run made its two writes directly to the table and has returned
C17_Witness ==
    \E r \in RunIds :
        /\ runs[r].pc = "done"
        /\ ~runs[r].root_widget
        /\ runs[r].dest_provider = "gdrive"
        /\ runs[r].remote_uri # None
        /\ Len(runs[r].db_writes) = 2
        /\ jobs[runs[r].job_id].last_run_at = runs[r].last_run_time

\* C18: a pass hands a row to run_job if and only if its next-run time is not
\* null, its status is absent or is idle in any spelling, and its next-run
\* time is not after the pass's reading of the clock
C18_DueIffConditions ==
    pass.at # None
    => \A j \in DOMAIN pass.rows :
          j \in pass.handed
          <=> /\ pass.rows[j].next_run_at # None
              /\ pass.rows[j].status \in {NoStatus, "Idle", "idle", "IDLE"}
              /\ pass.rows[j].next_run_at <= pass.at

\* one pass handed on a row without a status whose time was exactly the pass's
\* time, and passed over a row spelt IDLE whose time was still to come
C18_Witness ==
    /\ pass.at = HM(2, 0)
    /\ DOMAIN pass.rows = {1, 2}
    /\ pass.rows[1].status = NoStatus
    /\ pass.rows[1].next_run_at = pass.at
    /\ pass.rows[2].status = "IDLE"
    /\ pass.rows[2].next_run_at > pass.at
    /\ pass.handed = {1}

\* C19: a due job whose source path does not exist is marked Failed by the
\* pass, with no executor run started for it
C19_MissingSourceMarkedFailed ==
    \A j \in pass.handed \ pass.exists :
        /\ j \in pass.missing
        /\ jobs[j].last_run_status = STATUS_FAILED
        /\ Started(j) = 0

Stems == {<<"a">>, <<"a", ".", "b">>}
Extensions == {<<".", "z">>}

\* C21: with policy Rename and an existing desired path name.ext,
\* resolve_save_conflict returns name_k.ext for the smallest k >= 1 such that
\* name_k.ext does not exist
C21_RenameSmallestFree ==
    \A name \in Stems, ext \in Extensions :
        /\ resolved.returned
        /\ resolved.zip_dest = name \o ext
        /\ resolved.zip_dest \in disk
        /\ resolved.on_conflict_action \in {RENAME, ENUM_RENAME}
        => \E k \in 1..(Cardinality(disk) + 1) :
              /\ resolved.result = name \o <<"_">> \o str(k) \o ext
              /\ resolved.result \notin disk
              /\ \A i \in 1..(k - 1) : (name \o <<"_">> \o str(i) \o ext) \in disk

\* a.z and a_1.z exist and a_2.z does not: the rename of a.z returned a_2.z
C21_Witness ==
    /\ resolved.returned
    /\ resolved.zip_dest = <<"a", ".", "z">>
    /\ resolved.on_conflict_action = RENAME
    /\ {<<"a", ".", "z">>, <<"a", "_", "1", ".", "z">>} \subseteq disk
    /\ resolved.result = <<"a", "_", "2", ".", "z">>

\* C22: resolve_save_conflict returns the desired path, whatever the policy
\* and without a prompt, when the path does not exist; when it exists it
\* returns the same path under Overwrite and no path under Cancel
C22_AbsentOverwriteCancel ==
    resolved.returned
    => /\ resolved.zip_dest \notin disk
          => resolved.result = resolved.zip_dest /\ ~resolved.prompted
       /\ resolved.zip_dest \in disk /\ resolved.on_conflict_action \in {OVERWRITE, ENUM_OVERWRITE}
          => resolved.result = resolved.zip_dest
       /\ resolved.zip_dest \in disk /\ resolved.on_conflict_action \in {CANCEL, ENUM_CANCEL}
          => resolved.result = NoPath

\* a call with policy Cancel for a path that does not exist, on a disk where
\* an overwritten archive exists, returned the path
C22_Witness ==
    /\ resolved.returned
    /\ resolved.on_conflict_action = CANCEL
    /\ resolved.zip_dest = <<"a", ".", "b", ".", "z">>
    /\ resolved.zip_dest \notin disk
    /\ resolved.result = resolved.zip_dest
    /\ <<"a", ".", "z">> \in disk

\* the events in T are set, and nothing else of the registry or of the runs
\* changes
OnlySignals(T) ==
    /\ running' = running
    /\ \A r \in RunIds :
          runs'[r] = IF r \in T THEN [runs[r] EXCEPT !.stop_event = TRUE] ELSE runs[r]

\* C23: stop_job sets the cancellation signal of the run registered under its
\* id, stop_all_jobs the signals of all runs registered at that moment; they
\* change no status and remove no record
C23_StopOnlySetsSignals ==
    [][/\ \A j \in DOMAIN jobs :
              stop_job_clicked(j)
              => OnlySignals({running[k].stop_event : k \in DOMAIN running \cap {j}})
       /\ stop_all_jobs_clicked
              => OnlySignals({running[k].stop_event : k \in DOMAIN running})]_vars

\* two runs are registered and in Packaging with their signals set
C23_Witness ==
    /\ DOMAIN running = {1, 2}
    /\ \A k \in DOMAIN running :
          /\ running[k].status = STATUS_PACKAGING
          /\ runs[running[k].stop_event].stop_event

\* C24: the statuses a caller reads in a list it got from get_running_jobs
\* are the statuses of the moment the list was made, whatever add_job,
\* remove_job and update_job_status calls came later
C24_SnapshotStatusesFrozen ==
    held.taken => \A it \in held.items : it.status = it.then

\* C25: no thread holds the registry lock while it notifies listeners, and a
\* thread that holds the lock is inside a with block that it can leave, so
\* a listener that calls get_running_jobs gets the lock
C25_NotifyOutsideLock ==
    /\ \A t \in DOMAIN callers : callers[t].pc = "notify" => lock # t
    /\ lock # None => callers[lock].pc = "locked" /\ ENABLED with_body(lock)

\* without a root, the thread that called add_job is in its loop over the
\* listeners and the listener that reads get_running_jobs has run in it
C25_Witness ==
    /\ ~root
    /\ \E t \in DOMAIN callers :
          /\ callers[t].pc = "notify"
          /\ callers[t].op = "add_job"
          /\ in_list(callers[t].invoked, "reader")

\* C26: without a root, a publish over a list that is not changed meanwhile
\* calls every registered listener, in order, also after one that raised, and
\* no exception of a listener reaches the caller
C26_RaisingListenerIsolated ==
    \A t \in DOMAIN callers :
        /\ ~callers[t].raised
        /\ ~root /\ callers[t].pc = "returned" /\ ~callers[t].modified
           => callers[t].invoked = listeners

\* a publish has returned after calling the raising listener and then the
\* reading one
C26_Witness ==
    /\ ~root
    /\ listeners = <<"raiser", "reader">>
    /\ \E t \in DOMAIN callers :
          /\ callers[t].pc = "returned"
          /\ ~callers[t].modified
          /\ callers[t].invoked = <<"raiser", "reader">>

\* C27: add_listener of a registered listener leaves the list as it is, with
\* one registration of it; remove_listener of a listener that is not
\* registered leaves the list as it is; neither raises
C27_ListenerCallsIdempotent ==
    [][\A listener \in Listeners :
          /\ call_add_listener(listener) /\ in_list(listeners, listener)
             => /\ listeners' = listeners
                /\ Cardinality({i \in 1..Len(listeners') : listeners'[i] = listener}) = 1
                /\ ~api'.raised
          /\ call_remove_listener(listener) /\ ~in_list(listeners, listener)
             => /\ listeners' = listeners
                /\ ~api'.raised]_vars

\* add_listener has been called for a listener that was registered already,
\* next to another one
C27_Witness ==
    /\ api.op = "add_listener"
    /\ api.known
    /\ api.listener = "reader"
    /\ listeners = <<"reader", "raiser">>

\* run r has computed its next-run time
Computed(r) == runs[r].pc \notin {"unused", "start", "entered"}

\* C28: a next-run time the executor persists is later than the reading of
\* the clock it was computed from; that reading is taken at the start of
\* the run, before Packaging is reported, and neither it nor the next-run
\* time is computed anew when the run finishes
C28_NextRunAfterStart ==
    [][/\ \A r \in RunIds :
            /\ Computed(r)' /\ runs'[r].next_run_at # None
               => runs'[r].next_run_at > runs'[r].last_run_time
            /\ ~Computed(r) /\ Computed(r)'
               => /\ runs'[r].last_run_time = now'
                  /\ STATUS_PACKAGING \notin Range(runs'[r].statuses)
            /\ Computed(r) /\ Computed(r)'
               => /\ runs'[r].last_run_time = runs[r].last_run_time
                  /\ runs'[r].next_run_at = runs[r].next_run_at
       /\ \A i \in DOMAIN tk' :
            tk'[i].call = "update_job_status" /\ tk'[i].next_run_at # None
            => /\ tk'[i].last_run_at # None
               /\ tk'[i].next_run_at > tk'[i].last_run_at
       /\ \A j \in DOMAIN jobs' :
            jobs'[j].last_run_at # None /\ jobs'[j].next_run_at # None
            => jobs'[j].next_run_at > jobs'[j].last_run_at]_vars

\* an Hourly job at minute 30 that started at 23:30 has ended: the table
\* holds 00:30 of the next day as its next run
C28_Witness ==
    \E r \in RunIds :
        /\ Settled(r)
        /\ runs[r].schedule = "Hourly"
        /\ runs[r].last_run_time = HM(23, 30)
        /\ jobs[runs[r].job_id].last_run_at = HM(23, 30)
        /\ jobs[runs[r].job_id].next_run_at = MinutesPerDay + HM(0, 30)

\* C29: after a run of a Weekly job has ended, its row has status Idle and a
\* next-run time on the configured weekday at hour:minute, after the run
C29_WeeklyRescheduled ==
    \A r \in RunIds :
        (Settled(r) /\ Alone(r) /\ runs[r].schedule = "Weekly")
        => /\ jobs[runs[r].job_id].status = STATUS_IDLE
           /\ jobs[runs[r].job_id].next_run_at # None
           /\ weekday(jobs[runs[r].job_id].next_run_at)
                = jobs[runs[r].job_id].schedule_day_of_week
           /\ jobs[runs[r].job_id].next_run_at % MinutesPerDay
                = HM(runs[r].schedule_hour, runs[r].schedule_minute)
           /\ jobs[runs[r].job_id].next_run_at > runs[r].last_run_time

\* C30: while a run sends the notification its job asked for, its record is
\* in the registry with the status Notifying Sender, where a reader of
\* get_running_jobs finds it
C30_NotifyingSenderListed ==
    \A r \in RunIds :
        (runs[r].pc = "sending" /\ runs[r].send_email_on_completion)
        => /\ runs[r].job_id \in DOMAIN running
           /\ \E rec \in get_running_jobs(running) :
                 rec.stop_event = r /\ rec.status = STATUS_NOTIFYING_SENDER

\* C31: when a record leaves the registry its status is Completed or Failed
C31_TerminalStatusAtRemoval ==
    [][\A k \in DOMAIN running :
          k \notin DOMAIN running'
          => running[k].status \in {STATUS_COMPLETED, STATUS_FAILED}]_vars

\* run r takes a step of a failure or a cancellation: it raises, it is in
\* one of its two handlers, or it is past them with the outcome Failed
FailureStep(r) ==
    /\ runs'[r].pc # runs[r].pc
    /\ \/ runs'[r].pc \in {"interrupted", "error"}
       \/ runs[r].pc \in {"interrupted", "error"}
       \/ runs[r].job_status_final = STATUS_FAILED
          /\ runs[r].pc \in {"finally", "notify", "sending", "exit"}

\* C32: a step of a failure or cancellation of one run leaves the runs, the
\* registry records and the rows of all other jobs as they are, queues
\* nothing for another job, and leaves the scheduler able to run a pass
C32_FailureContained ==
    [][\A r \in RunIds :
          FailureStep(r)
          => /\ \A q \in RunIds : runs[q].job_id # runs[r].job_id => runs'[q] = runs[q]
             /\ \A k \in DOMAIN running \ {runs[r].job_id} :
                   k \in DOMAIN running' /\ running'[k] = running[k]
             /\ \A j \in DOMAIN jobs \ {runs[r].job_id} :
                   j \in DOMAIN jobs' /\ jobs'[j] = jobs[j]
             /\ Len(tk') >= Len(tk) /\ SubSeq(tk', 1, Len(tk)) = tk
             /\ \A i \in (Len(tk) + 1)..Len(tk') :
                   IF tk'[i].call = "update_job_status"
                   THEN tk'[i].job_id = runs[r].job_id
                   ELSE tk'[i].run = r
             /\ pass' = pass
             /\ ENABLED check_and_run_jobs]_vars

\* the run of one job has ended Failed after a stop; the run of the other
\* job is registered in Packaging with its signal unset and its row Pending
C32_Witness ==
    \E r, q \in RunIds :
        /\ runs[r].pc = "done"
        /\ runs[r].stop_event
        /\ runs[r].job_status_final = STATUS_FAILED
        /\ runs[q].job_id # runs[r].job_id
        /\ ~runs[q].stop_event
        /\ runs[q].job_id \in DOMAIN running
        /\ running[runs[q].job_id].status = STATUS_PACKAGING
        /\ jobs[runs[q].job_id].status = STATUS_PENDING
        /\ jobs[runs[r].job_id].last_run_status = STATUS_FAILED

TheZipWasCancelled == "Zip operation was cancelled or failed."

\* C34: a run whose archive exists and whose policy is Cancel leaves zip_path
\* for the handler of InterruptedError, unless zip_path itself raised; it
\* writes no archive, reports Failed, never reports Transferring nor uploads,
\* and its row ends Idle with the last-run outcome Failed
C34_ResolverCancelFailsRun ==
    [][\A r \in RunIds :
          /\ (/\ runs[r].pc = "packing" /\ runs'[r].pc # "packing"
              /\ runs[r].on_conflict = CANCEL
              /\ <<runs[r].job_id, 0>> \in files)
             => /\ files' = files
                /\ runs'[r].pc \in {"interrupted", "error"}
                /\ runs'[r].pc = "interrupted" <=> runs'[r].exception = TheZipWasCancelled
          /\ runs'[r].exception = TheZipWasCancelled
             => /\ runs'[r].pc \notin {"packaged", "uploading", "final"}
                /\ runs'[r].remote_uri = None
                /\ STATUS_TRANSFERRING \notin Range(runs'[r].statuses)
                /\ runs'[r].pc \in AfterTry
                   => /\ runs'[r].job_status_final = STATUS_FAILED
                      /\ runs'[r].statuses[3] = STATUS_FAILED
                      /\ Last(runs'[r].db_writes).status = STATUS_IDLE
                /\ Settled(r)' /\ Alone(r)'
                   => /\ jobs'[runs'[r].job_id].status = STATUS_IDLE
                      /\ jobs'[runs'[r].job_id].last_run_status = STATUS_FAILED]_vars

\* a run with policy Cancel found the archive there and has ended: Pending,
\* Packaging, Failed, and the row Idle with the outcome Failed
C34_Witness ==
    \E r \in RunIds :
        /\ Settled(r)
        /\ runs[r].on_conflict = CANCEL
        /\ runs[r].exception = TheZipWasCancelled
        /\ <<runs[r].job_id, 0>> \in files
        /\ runs[r].statuses = <<STATUS_PENDING, STATUS_PACKAGING, STATUS_FAILED>>
        /\ jobs[runs[r].job_id].status = STATUS_IDLE
        /\ jobs[runs[r].job_id].last_run_status = STATUS_FAILED

\* C38: a pass that finds the source of a due job missing leaves its row
\* Idle with the last-run outcome Failed and no next run, so that no later
\* pass finds the job due
C38_MissingSourceNotDueAgain ==
    \A j \in pass.handed \ pass.exists :
        /\ jobs[j].status = STATUS_IDLE
        /\ jobs[j].last_run_status = STATUS_FAILED
        /\ jobs[j].next_run_at = None
        /\ \A t \in ClockReads : ~is_due(jobs[j], t)

\* the only run of a Once job has ended Failed
OnceFailed(r) ==
    /\ Settled(r)
    /\ Alone(r)
    /\ runs[r].schedule = "Once"
    /\ runs[r].job_status_final = STATUS_FAILED

\* C39: after a failed or cancelled run of a Once job its row is Idle with
\* no next run; it is due at no reading of the clock and a later pass
\* neither hands it to run_job nor starts a run for it
C39_OnceFailedNeverRescheduled ==
    [][\A r \in RunIds :
          OnceFailed(r)
          => /\ jobs[runs[r].job_id].status = STATUS_IDLE
             /\ jobs[runs[r].job_id].next_run_at = None
             /\ \A t \in ClockReads : ~is_due(jobs[runs[r].job_id], t)
             /\ pass' # pass
                => /\ runs[r].job_id \notin pass'.handed
                   /\ pass'.started = <<>>
                   /\ runs' = runs]_vars

\* a Once job was cancelled by its stop signal, and a pass that read its row
\* after that, Idle with no next run, passed over it
C39_Witness ==
    \E r \in RunIds :
        /\ OnceFailed(r)
        /\ runs[r].stop_event
        /\ runs[r].exception = "Job was cancelled before start."
        /\ pass.at # None
        /\ pass.rows[runs[r].job_id].status = STATUS_IDLE
        /\ pass.rows[runs[r].job_id].next_run_at = None
        /\ pass.evaluated = {runs[r].job_id}
        /\ pass.handed = {}

\* C33: a publish that has returned has called, exactly once, every listener
\* that was registered from the beginning of its loop to the end
C33_StayingListenersCalledOnce ==
    \A t \in DOMAIN callers :
        callers[t].pc = "returned"
        => \A listener \in callers[t].stayed :
              Cardinality({n \in DOMAIN callers[t].invoked :
                              callers[t].invoked[n] = listener}) = 1

\* C35: scheduler_loop returns only from its loop condition and only with
\* the stop event set; a loop condition evaluated with the event set ends the
\* loop, so that no pass begins after it; once the event is set the loop
\* takes at most three more steps (the pass under way, its sleep, the loop
\* condition); and a loop that has returned does nothing more
C35_SchedulerLoopStops ==
    [][/\ scheduler.stop_event => scheduler'.stop_event
       /\ (scheduler'.pc = "returned" /\ scheduler.pc # "returned")
          => scheduler.stop_event /\ scheduler.pc = "while"
       /\ (scheduler.pc = "while" /\ scheduler.stop_event /\ scheduler'.pc # "while")
          => scheduler'.pc = "returned" /\ pass' = pass
       /\ scheduler'.pc = "try" => (scheduler.pc = "try" \/ ~scheduler.stop_event)
       /\ scheduler'.since_set <= 3
       /\ scheduler.pc = "returned" => scheduler' = scheduler /\ pass' = pass]_vars

\* the event was set while a pass was under way; the loop finished that pass
\* and its sleep, evaluated its condition and returned
C35_Witness ==
    /\ scheduler.pc = "returned"
    /\ scheduler.stop_event
    /\ scheduler.since_set = 3
    /\ pass.at # None

\* C40: a confirmed exit sets the stop event of every registered run; the
\* scheduler's stop event is set, and the window destroyed, only in a state in
\* which the registry is empty
C40_ExitWaitsForRegistry ==
    [][/\ (app.pc = "confirm" /\ app'.pc = "check")
          => \A k \in DOMAIN running' : runs'[running'[k].stop_event].stop_event
       /\ (scheduler'.stop_event /\ ~scheduler.stop_event) => DOMAIN running = {}
       /\ (app'.pc = "destroyed" /\ app.pc # "destroyed") => DOMAIN running = {}]_vars

\* the restore thread takes a step
RestoreStep == restore'.pc # restore.pc \/ restore'.arcname # restore.arcname

\* the thread is about to read the Event: before the start, before an
\* archive, after a download, before an entry
AtCheckpoint ==
    \/ restore.pc = "started"
    \/ restore.pc = "archive" /\ restore.a <= Len(restore.archives)
    \/ restore.pc = "downloaded"
    \/ restore.pc = "entry" /\ restore.arcname <= restore.archives[restore.a].arcnames

\* the positions of the restore thread inside its loop over the archives
InArchiveLoop == {"archive", "download", "downloaded", "entry"}

\* C36: a restore thread that reaches one of its four checkpoints with the
\* Event set observes it there and extracts nothing at that step; after it
\* has observed the Event it extracts nothing, leaves the loop over the
\* archives for good, reports Failed and never Completed before its record
\* is removed, and ends with Failed in its history row and no record in the
\* registry
C36_RestoreCancellation ==
    [][/\ (restore.stop_event /\ AtCheckpoint /\ RestoreStep)
          => /\ restore'.observed # "none"
             /\ restore'.pc \in {"interrupted", "cleanup"}
             /\ restore'.extracted = restore.extracted
       /\ restore.observed # "none"
          => /\ restore'.observed = restore.observed
             /\ restore'.extracted = restore.extracted
             /\ restore'.pc \notin InArchiveLoop
       /\ (restore'.observed # "none" /\ restore'.pc \in {"finally", "notify", "done"})
          => /\ restore'.job_status_final = STATUS_FAILED
             /\ restore'.pc = "finally"
                => /\ Last(restore'.statuses) = STATUS_FAILED
                   /\ STATUS_COMPLETED \notin Range(restore'.statuses)
                   /\ running'[RestoreKey].status = STATUS_FAILED
       /\ (restore'.observed # "none" /\ restore'.pc \in {"notify", "done"})
          => /\ restore_history' = STATUS_FAILED
             /\ RestoreKey \notin DOMAIN running']_vars

\* a restore was cancelled before the second entry of a downloaded archive:
\* one entry is extracted, the history row says Failed, the registry is empty
C36_Witness ==
    /\ restore.pc = "done"
    /\ restore.observed = "entry"
    /\ restore.archives[1].cloud
    /\ restore.extracted = {<<1, 1>>}
    /\ restore.job_status_final = STATUS_FAILED
    /\ restore_history = STATUS_FAILED
    /\ DOMAIN running = {}

\* the downloads that are in staging
Staged == {path \in restore_files : path[1] = "staging"}

\* C37: the inner finally leaves no download in staging, whatever ended the
\* archive; outside the processing of an archive staging holds no download;
\* and no step removes a local archive
C37_StagedArchiveRemoved ==
    [][/\ (restore.pc = "cleanup" /\ restore'.pc # "cleanup") => Staged' = {}
       /\ restore'.pc \notin {"download", "downloaded", "entry", "cleanup"} => Staged' = {}
       /\ Staged' \subseteq {staged_path(restore'.a)}
       /\ \A path \in restore_files : path[1] = "local" => path \in restore_files']_vars

\* a restore from a downloaded archive and then a local one has ended in
\* success: both were extracted, the download is gone, the local archive is
\* there
C37_Witness ==
    /\ restore.pc = "done"
    /\ restore.job_status_final = STATUS_COMPLETED
    /\ Len(restore.archives) = 2
    /\ restore.archives[1].cloud
    /\ ~restore.archives[2].cloud
    /\ {<<1, 1>>, <<2, 1>>} \subseteq restore.extracted
    /\ restore_files = {local_path(2)}
====
